---------------------------- MODULE Spec2Model ----------------------------
(***************************************************************************)
(* A model of the sdl2-template engine: the fixed-timestep game loop       *)
(* (Engine::Run / Engine::Update / Game::Update), the text cache of        *)
(* TextRenderer, the dot-path Config accessor and the SaveManager.         *)
(*                                                                         *)
(* Conventions.                                                            *)
(*  - Time is counted in ticks of 1/120 s: the default fixed timestep      *)
(*    1/60 s is 2 ticks, the deltaTime cap 0.05 s is 6 ticks.              *)
(*  - A std::string is a sequence of letters; a letter is an atom of the   *)
(*    alphabet (a TLA+ string).  "." and "|" are the separator letters.    *)
(*  - A nlohmann::json value is a record [t |-> type, ...]; an object      *)
(*    holds a function from keys (sequences of letters) to json values.    *)
(***************************************************************************)
EXTENDS Integers, Sequences, FiniteSets, TLC

VARIABLES
    loopOwner,             \* "Engine" or "Game": the class whose Run() main() calls
    \* ---- core::Engine (src/engine/public/core/Engine.h:63-70) ----
    enginePc,              \* position of Engine::Initialize / Engine::Run
    m_isRunning,
    m_fixedTimestep,
    m_maxFixedSteps,
    m_physicsAccumulator,
    deltaTime,             \* the local deltaTime of the current Run iteration
    fixedSteps,            \* the local fixedSteps at the end of the last Update
    frameCalls,            \* calls made by the last Engine::Update, in order
    \* ---- core::Game (src/unnamed/part_010:132-146) ----
    g_physicsAccumulator,
    g_deltaTime,
    g_fixedSteps,
    g_frameCalls,
    \* ---- text::TextRenderer (src/unnamed/part_019:101-115) ----
    tr_initialized,        \* m_initialized
    m_textCache,           \* key -> [memorySize, lastUsedFrame]
    m_maxCacheSize,
    m_currentCacheSize,
    m_currentFrame,
    trPc,                  \* "idle", or "makeRoom" inside RenderCached's loop
    trPending,             \* the entry RenderCached is about to insert
    evictCall,             \* what EvictOldCacheEntries did, if the last step called it
    trLastOp,              \* the last TextRenderer call: its name and cache key
    \* ---- utils::Config (src/src/engine/private/utils/Config.cpp) ----
    m_config,              \* the nlohmann::json document
    m_configPath,
    m_hasUnsavedChanges,
    cfgFile,               \* content of the settings file on disk
    cfgLastOp,             \* the last Config call, its arguments and its result
    \* ---- save::SaveManager (src/src/public/save/SaveManager.h) ----
    sm_initialized,        \* SaveManager::m_initialized
    files,                 \* the regular files under the save directory
    now,                   \* the wall clock, in seconds
    qsLast,                \* per type, the last Quicksave that returned true
    smLastOp,              \* the last SaveManager call and its result
    \* ---- audio::AudioManager (src/src/private/audio/AudioManager.cpp) ----
    au_initialized,        \* AudioManager::m_initialized
    m_sounds,              \* names of the loaded sounds
    m_streams,             \* names of the loaded streams
    m_playingAudio,        \* handle -> [channel, isStream]
    m_nextHandle,
    m_currentMusicHandle,
    mixMusic,              \* SDL_mixer: the music playing, if any
    mixChannels,           \* SDL_mixer: per channel, the sound playing, if any
    auLastOp,              \* the last AudioManager call and the handle it returned
    \* ---- input::Input (src/src/engine/private/input/Input.cpp) ----
    keyboard,              \* the keys held down right now
    sdlKeyState,           \* SDL's keyboard state array
    m_currentKeyState,     \* "null", or "sdl": the pointer to SDL's array
    m_previousKeyState,    \* the array Input allocates, once it has
    inputPc,               \* position in the frame
    frameKeys,             \* the keys down in this frame and in the one before
    justPressed,           \* what IsKeyJustPressed told the user's Update
    \* ---- text::FontManager (src/unnamed/part_014) ----
    fm_initialized,        \* FontManager::m_initialized
    m_fonts,               \* name -> [font, filepath, size]
    m_defaultFont,
    fmLastOp,              \* the last FontManager call and what it returned
    \* ---- the cache key of RenderCached (TextRenderer.cpp:221-256, 311-331) ----
    keyTexts,              \* the two Text objects drawn
    keyDrawn,              \* how many of them have been drawn
    keyCache,              \* cache key -> the texture cached under it
    keyShown               \* the texture the last draw put on the screen

engineVars == <<loopOwner, enginePc, m_isRunning, m_fixedTimestep, m_maxFixedSteps,
                m_physicsAccumulator, deltaTime, fixedSteps, frameCalls,
                g_physicsAccumulator, g_deltaTime, g_fixedSteps, g_frameCalls>>

cacheVars == <<tr_initialized, m_textCache, m_maxCacheSize, m_currentCacheSize,
               m_currentFrame, trPc, trPending, evictCall, trLastOp>>

configVars ==
    <<m_config, m_configPath, m_hasUnsavedChanges, cfgFile, cfgLastOp>>

saveVars == <<sm_initialized, files, now, qsLast, smLastOp>>

audioVars ==
    <<au_initialized, m_sounds, m_streams, m_playingAudio, m_nextHandle,
      m_currentMusicHandle, mixMusic, mixChannels, auLastOp>>

inputVars ==
    <<keyboard, sdlKeyState, m_currentKeyState, m_previousKeyState, inputPc,
      frameKeys, justPressed>>

fontVars == <<fm_initialized, m_fonts, m_defaultFont, fmLastOp>>

keyVars == <<keyTexts, keyDrawn, keyCache, keyShown>>

vars ==
    <<engineVars, cacheVars, configVars, saveVars, audioVars, inputVars,
      fontVars, keyVars>>

-----------------------------------------------------------------------------
(* Bounds of the model *)

MaxElapsed == 12         \* longest measured frame time, in ticks (above the cap)
MaxAccumulator == 14     \* Update is not explored beyond this backlog
MaxStepsConfig == 3      \* largest physics.max_fixed_steps explored besides the default

(* Program constants, in ticks of 1/120 s *)
DefaultFixedTimestep == 2     \* 1.0f / 60.0f
DefaultMaxFixedSteps == 5
DeltaTimeCap == 6             \* 0.05f
GAME_FIXED_TIMESTEP == 2      \* Game::FIXED_TIMESTEP = 1.0f / 60.0f
GAME_MAX_FIXED_STEPS == 5     \* MAX_FIXED_STEPS in Game::Update

\* physics.fixed_timestep read from the configuration: any float, also
\* zero and negative ones
FixedTimestepChoices == {-1, 0, 1, DefaultFixedTimestep, 3}
\* physics.max_fixed_steps read from the configuration: a step count
MaxFixedStepsChoices == (0..MaxStepsConfig) \cup {DefaultMaxFixedSteps}

-----------------------------------------------------------------------------
(* The fixed-timestep loop *)

Call(fn, dt) == [fn |-> fn, dt |-> dt]

RECURSIVE FixedLoopNoCap(_, _, _, _, _)
FixedLoopNoCap(acc, ts, maxSteps, steps, calls) ==
    IF acc >= ts /\ steps < maxSteps + 1
    THEN FixedLoopNoCap(acc - ts, ts, maxSteps, steps + 1,
              calls \o <<Call("Physics.FixedUpdate", ts),
                         Call("App.FixedUpdate", ts)>>)
    ELSE [acc |-> acc, steps |-> steps, calls |-> calls]

\* a loop that drops what is left of the accumulator when it hits the cap
RECURSIVE FixedLoopDiscarding(_, _, _, _, _)
FixedLoopDiscarding(acc, ts, maxSteps, steps, calls) ==
    IF acc >= ts /\ steps < maxSteps
    THEN FixedLoopDiscarding(acc - ts, ts, maxSteps, steps + 1,
              calls \o <<Call("Physics.FixedUpdate", ts),
                         Call("App.FixedUpdate", ts)>>)
    ELSE [acc |-> IF steps = maxSteps THEN 0 ELSE acc, steps |-> steps,
          calls |-> calls]

\* while (acc >= ts && fixedSteps < maxSteps) { physics; app; acc -= ts; fixedSteps++ }
RECURSIVE FixedLoop(_, _, _, _, _)
FixedLoop(acc, ts, maxSteps, steps, calls) ==
    IF acc >= ts /\ steps < maxSteps
    THEN FixedLoop(acc - ts, ts, maxSteps, steps + 1,
              calls \o <<Call("Physics.FixedUpdate", ts),
                         Call("App.FixedUpdate", ts)>>)
    ELSE [acc |-> acc, steps |-> steps, calls |-> calls]

VariableUpdateWithRemainder(loop, dt) == <<Call("App.Update", loop.acc)>>

\* 3. User's variable update, with the frame's deltaTime
VariableUpdate(loop, dt) == <<Call("App.Update", dt)>>

\* The body of Update from the accumulator on
UpdateBody(acc, ts, maxSteps, dt) ==
    LET loop == FixedLoop(acc + dt, ts, maxSteps, 0, <<>>)
    IN  [acc |-> loop.acc, steps |-> loop.steps,
         calls |-> loop.calls \o VariableUpdate(loop, dt)]

\* a frame time that is not capped
Uncapped(elapsed) == elapsed

\* deltaTime = elapsed; if (deltaTime > 0.05f) deltaTime = 0.05f
CapDelta(elapsed) == IF elapsed > DeltaTimeCap THEN DeltaTimeCap ELSE elapsed

-----------------------------------------------------------------------------
(* core::Engine *)

EngineInit ==
    /\ loopOwner \in {"Engine", "Game"}
    /\ enginePc = "constructed"
    /\ m_isRunning = FALSE
    /\ m_fixedTimestep = DefaultFixedTimestep
    /\ m_maxFixedSteps = DefaultMaxFixedSteps
    /\ m_physicsAccumulator = 0
    /\ deltaTime = 0
    /\ fixedSteps = 0
    /\ frameCalls = <<>>
    /\ g_physicsAccumulator = 0
    /\ g_deltaTime = 0
    /\ g_fixedSteps = 0
    /\ g_frameCalls = <<>>

gameVars == <<loopOwner, g_physicsAccumulator, g_deltaTime, g_fixedSteps, g_frameCalls>>

\* Engine::Initialize: the loop settings come from the configuration
EngineInitialize ==
    /\ loopOwner = "Engine"
    /\ enginePc = "constructed"
    /\ \E ts \in FixedTimestepChoices, ms \in MaxFixedStepsChoices :
          /\ m_fixedTimestep' = ts
          /\ m_maxFixedSteps' = ms
    /\ enginePc' = "initialized"
    /\ UNCHANGED <<m_isRunning, m_physicsAccumulator, deltaTime, fixedSteps,
                   frameCalls, gameVars>>

\* Engine::Run up to the loop test
RunStart ==
    /\ enginePc = "initialized"
    /\ m_isRunning' = TRUE
    /\ enginePc' = "loopTest"
    /\ UNCHANGED <<m_fixedTimestep, m_maxFixedSteps, m_physicsAccumulator,
                   deltaTime, fixedSteps, frameCalls, gameVars>>

\* a loop that goes on whatever the flag is
AlwaysContinues(running) == TRUE

\* the loop test of Run: while (s_instance->m_isRunning)
LoopTest(running) == running

\* while (m_isRunning) { deltaTime = elapsed, capped; ...
FrameBegin ==
    /\ enginePc = "loopTest"
    /\ LoopTest(m_isRunning)
    /\ \E elapsed \in 0..MaxElapsed : deltaTime' = CapDelta(elapsed)
    /\ enginePc' = "handleEvents"
    /\ UNCHANGED <<m_isRunning, m_fixedTimestep, m_maxFixedSteps,
                   m_physicsAccumulator, fixedSteps, frameCalls, gameVars>>

\* ... } the loop test fails: Run returns
RunEnd ==
    /\ enginePc = "loopTest"
    /\ ~LoopTest(m_isRunning)
    /\ enginePc' = "returned"
    /\ UNCHANGED <<m_isRunning, m_fixedTimestep, m_maxFixedSteps,
                   m_physicsAccumulator, deltaTime, fixedSteps, frameCalls,
                   gameVars>>

\* Engine::HandleEvents: the pending SDL events of this frame
EventKinds == {"SDL_QUIT", "KEYDOWN_ESCAPE", "KEYDOWN_F1", "OTHER"}

HandleEvents ==
    /\ enginePc = "handleEvents"
    /\ \E pending \in SUBSET EventKinds :
          m_isRunning' = IF "SDL_QUIT" \in pending \/ "KEYDOWN_ESCAPE" \in pending
                         THEN FALSE ELSE m_isRunning
    /\ enginePc' = "update"
    /\ UNCHANGED <<m_fixedTimestep, m_maxFixedSteps, m_physicsAccumulator,
                   deltaTime, fixedSteps, frameCalls, gameVars>>

\* Engine::Update(deltaTime)
EngineUpdate ==
    /\ enginePc = "update"
    /\ m_physicsAccumulator + deltaTime <= MaxAccumulator
    /\ LET r == UpdateBody(m_physicsAccumulator, m_fixedTimestep,
                           m_maxFixedSteps, deltaTime)
       IN  /\ m_physicsAccumulator' = r.acc
           /\ fixedSteps' = r.steps
           /\ frameCalls' = r.calls
    /\ enginePc' = "render"
    /\ UNCHANGED <<m_isRunning, m_fixedTimestep, m_maxFixedSteps, deltaTime,
                   gameVars>>

\* Engine::Render, then back to the loop test
EngineRender ==
    /\ enginePc = "render"
    /\ enginePc' = "loopTest"
    /\ UNCHANGED <<m_isRunning, m_fixedTimestep, m_maxFixedSteps,
                   m_physicsAccumulator, deltaTime, fixedSteps, frameCalls,
                   gameVars>>

\* Game::Update(deltaTime), called by Game::Run with the capped deltaTime
GameUpdate ==
    /\ loopOwner = "Game"
    /\ \E elapsed \in 0..MaxElapsed :
        LET dt == CapDelta(elapsed)
            r == UpdateBody(g_physicsAccumulator, GAME_FIXED_TIMESTEP,
                            GAME_MAX_FIXED_STEPS, dt)
        IN  /\ g_physicsAccumulator + dt <= MaxAccumulator
            /\ g_deltaTime' = dt
            /\ g_physicsAccumulator' = r.acc
            /\ g_fixedSteps' = r.steps
            /\ g_frameCalls' = r.calls
    /\ UNCHANGED <<loopOwner, enginePc, m_isRunning, m_fixedTimestep,
                   m_maxFixedSteps, m_physicsAccumulator, deltaTime,
                   fixedSteps, frameCalls>>



-----------------------------------------------------------------------------
(* text::TextRenderer: the cache of rendered text textures *)

MaxFrame == 3            \* frames explored
MaxTime == 2             \* seconds the clock advances
MaxHandle == 3           \* audio handles handed out
NumChannels == 2         \* mixing channels
MaxCacheMB == 2          \* largest cache budget explored, in MB
GlyphWidth == 256        \* pixels a rendered letter is wide
SmallFontHeight == 512   \* pixel height of a line in font "f"
LargeFontHeight == 1024  \* pixel height of a line in font "g"

EvictPeriod == 60        \* m_currentFrame % 60
DefaultCacheMB == 64
MB == 1024 * 1024

Contents == {<<>>, <<"a">>, <<"a", "a">>}
Fonts == {<<"f">>, <<"g">>}

\* The Text objects drawn: content, font, alignment and render mode vary, the
\* other properties keep their defaults (Text.h:99-117)
TextInputs == [content : Contents, font : Fonts, alignment : {0},
               mode : {"Cached", "Immediate"}]

\* GenerateTextHash: content | font | color | alignment | wrap | ... with the
\* default properties formatted by std::fixed << std::setprecision(3)
AlignmentDigits == <<"0", "1", "2", "3">>
GenerateTextHash(text) ==
    text.content \o <<"|">> \o text.font \o <<"|">>
        \o <<"1.000,1.000,1.000,1.000", "|",
             AlignmentDigits[text.alignment + 1], "|",
             "0|0.000|1.000|0|1.000|0.000,0.000,0.000,1.000|0|2.000,2.000|0.000,0.000,0.000,0.500">>

\* The size of the texture SDL_ttf renders for a text
TextureSize(text) ==
    [x |-> GlyphWidth * Len(text.content),
     y |-> IF text.font = <<"f">> THEN SmallFontHeight ELSE LargeFontHeight]

\* size_t memorySize = size.x * size.y * 4
MemorySize(size) == size.x * size.y * 4

EmptyCache == [k \in {} |-> 0]

Remove(cache, key) == [k \in (DOMAIN cache) \ {key} |-> cache[k]]

Newest(cache) ==
    {k \in DOMAIN cache :
        \A j \in DOMAIN cache : cache[k].lastUsedFrame >= cache[j].lastUsedFrame}

\* std::min_element by lastUsedFrame over the unordered_map: an entry with the
\* lowest lastUsedFrame; which one among equals depends on the iteration order
Oldest(cache) ==
    {k \in DOMAIN cache :
        \A j \in DOMAIN cache : cache[k].lastUsedFrame <= cache[j].lastUsedFrame}

\* EvictOldCacheEntries: the possible outcomes, each with the evictions made
RECURSIVE EvictLoop(_, _, _, _)
EvictLoop(cache, size, budget, steps) ==
    IF size > budget /\ DOMAIN cache # {}
    THEN UNION { EvictLoop(Remove(cache, k), size - cache[k].memorySize, budget,
                           Append(steps, [victim |-> k, before |-> cache,
                                          sizeBefore |-> size]))
                 : k \in Oldest(cache) }
    ELSE {[budget |-> budget, steps |-> steps, cacheAfter |-> cache,
           sizeAfter |-> size, turn |-> 0]}

\* an eviction that evicts nothing
EvictNothing(cache, size, budget) ==
    {[budget |-> budget, steps |-> <<>>, cacheAfter |-> cache,
      sizeAfter |-> size, turn |-> 0]}

EvictOldCacheEntries(cache, size, budget) == EvictLoop(cache, size, budget, <<>>)

TouchAllEntries(cache, key, frame) ==
    [k \in DOMAIN cache |-> [cache[k] EXCEPT !.lastUsedFrame = frame]]

\* cache hit: it->second.lastUsedFrame = m_currentFrame
TouchEntry(cache, key, frame) == [cache EXCEPT ![key].lastUsedFrame = frame]

NoEvictCall == [budget |-> 0, steps |-> <<>>, cacheAfter |-> EmptyCache,
                sizeAfter |-> 0, turn |-> 0]
NoPending == [key |-> <<>>, memorySize |-> 0]
Op(name) == [op |-> name, key |-> <<>>, rendered |-> FALSE]

CacheInit ==
    /\ tr_initialized = FALSE
    /\ m_textCache = EmptyCache
    /\ m_maxCacheSize = DefaultCacheMB * MB
    /\ m_currentCacheSize = 0
    /\ m_currentFrame = 0
    /\ trPc = "idle"
    /\ trPending = NoPending
    /\ evictCall = NoEvictCall
    /\ trLastOp = Op("constructed")

\* TextRenderer::Initialize, with LoadConfigFromSettings reading text.cache_size_mb
TRInitialize ==
    /\ trPc = "idle"
    /\ \E fontManagerReady \in BOOLEAN, mb \in 0..MaxCacheMB :
          IF fontManagerReady
          THEN /\ tr_initialized' = TRUE
               /\ m_maxCacheSize' = mb * MB
          ELSE UNCHANGED <<tr_initialized, m_maxCacheSize>>
    /\ trLastOp' = Op("Initialize")
    /\ evictCall' = NoEvictCall
    /\ UNCHANGED <<m_textCache, m_currentCacheSize, m_currentFrame, trPc,
                   trPending>>

\* TextRenderer::Shutdown
TRShutdown ==
    /\ trPc = "idle"
    /\ IF tr_initialized
       THEN /\ m_textCache' = EmptyCache
            /\ m_currentCacheSize' = 0
            /\ tr_initialized' = FALSE
       ELSE UNCHANGED <<m_textCache, m_currentCacheSize, tr_initialized>>
    /\ trLastOp' = Op("Shutdown")
    /\ evictCall' = NoEvictCall
    /\ UNCHANGED <<m_maxCacheSize, m_currentFrame, trPc, trPending>>

\* TextRenderer::Update
TRUpdate ==
    /\ trPc = "idle"
    /\ m_currentFrame < MaxFrame
    /\ IF ~tr_initialized
       THEN /\ evictCall' = NoEvictCall
            /\ UNCHANGED <<m_currentFrame, m_textCache, m_currentCacheSize>>
       ELSE /\ m_currentFrame' = m_currentFrame + 1
            /\ IF (m_currentFrame + 1) % EvictPeriod = 0
               THEN \E r \in EvictOldCacheEntries(m_textCache, m_currentCacheSize,
                                                  m_maxCacheSize) :
                       /\ m_textCache' = r.cacheAfter
                       /\ m_currentCacheSize' = r.sizeAfter
                       /\ evictCall' = r
               ELSE /\ evictCall' = NoEvictCall
                    /\ UNCHANGED <<m_textCache, m_currentCacheSize>>
    /\ trLastOp' = Op("Update")
    /\ UNCHANGED <<tr_initialized, m_maxCacheSize, trPc, trPending>>

\* TextRenderer::DrawText and RenderCached up to the make-room loop.
\* m_enableCache is never written and stays true.
DrawText ==
    /\ trPc = "idle"
    /\ \E text \in TextInputs, textureCreated \in BOOLEAN :
        LET key == GenerateTextHash(text)
            ignored == ~tr_initialized \/ text.content = <<>>
            found == [op |-> "DrawText", key |-> key, rendered |-> FALSE]
        IN  CASE ignored ->
                   /\ trLastOp' = [found EXCEPT !.op = "DrawText.ignored"]
                   /\ UNCHANGED <<m_textCache, trPc, trPending>>
              [] ~ignored /\ text.mode # "Cached" ->
                   \* RenderImmediate
                   /\ trLastOp' = [found EXCEPT !.op = "DrawText.immediate", !.rendered = TRUE]
                   /\ UNCHANGED <<m_textCache, trPc, trPending>>
              [] ~ignored /\ text.mode = "Cached" /\ key \in DOMAIN m_textCache ->
                   /\ m_textCache' = TouchEntry(m_textCache, key, m_currentFrame)
                   /\ trLastOp' = [found EXCEPT !.op = "DrawText.hit"]
                   /\ UNCHANGED <<trPc, trPending>>
              [] ~ignored /\ text.mode = "Cached" /\ key \notin DOMAIN m_textCache ->
                   IF textureCreated
                   THEN /\ trPending' = [key |-> key,
                                         memorySize |-> MemorySize(TextureSize(text))]
                        /\ trPc' = "makeRoom"
                        /\ trLastOp' = [found EXCEPT !.op = "DrawText.miss", !.rendered = TRUE]
                        /\ UNCHANGED m_textCache
                   ELSE /\ trLastOp' = [found EXCEPT !.op = "DrawText.failed", !.rendered = TRUE]
                        /\ UNCHANGED <<m_textCache, trPc, trPending>>
    /\ evictCall' = NoEvictCall
    /\ UNCHANGED <<tr_initialized, m_maxCacheSize, m_currentCacheSize,
                   m_currentFrame>>

\* while (m_currentCacheSize + memorySize > m_maxCacheSize && !m_textCache.empty())
MakeRoomTest ==
    /\ m_currentCacheSize + trPending.memorySize > m_maxCacheSize
    /\ DOMAIN m_textCache # {}

\* one iteration of the loop: EvictOldCacheEntries(); turn tells an iteration
\* from the one before it
MakeRoomEvict ==
    /\ trPc = "makeRoom"
    /\ MakeRoomTest
    /\ \E r \in EvictOldCacheEntries(m_textCache, m_currentCacheSize, m_maxCacheSize) :
          /\ m_textCache' = r.cacheAfter
          /\ m_currentCacheSize' = r.sizeAfter
          /\ evictCall' = [r EXCEPT !.turn = 1 - evictCall.turn]
    /\ UNCHANGED <<tr_initialized, m_maxCacheSize, m_currentFrame, trPc,
                   trPending, trLastOp>>

\* the loop is left: add the entry to the cache and draw
MakeRoomDone ==
    /\ trPc = "makeRoom"
    /\ ~MakeRoomTest
    /\ m_textCache' = [k \in DOMAIN m_textCache \cup {trPending.key} |->
                         IF k = trPending.key
                         THEN [memorySize |-> trPending.memorySize,
                               lastUsedFrame |-> m_currentFrame]
                         ELSE m_textCache[k]]
    /\ m_currentCacheSize' = m_currentCacheSize + trPending.memorySize
    /\ trPc' = "idle"
    /\ trPending' = NoPending
    /\ evictCall' = NoEvictCall
    /\ UNCHANGED <<tr_initialized, m_maxCacheSize, m_currentFrame, trLastOp>>

\* TextRenderer::ClearCache
ClearCache ==
    /\ trPc = "idle"
    /\ m_textCache' = EmptyCache
    /\ m_currentCacheSize' = 0
    /\ trLastOp' = Op("ClearCache")
    /\ evictCall' = NoEvictCall
    /\ UNCHANGED <<tr_initialized, m_maxCacheSize, m_currentFrame, trPc,
                   trPending>>

\* std::string::find: needle occurs in hay as a contiguous part; the empty
\* needle is found in every string
Find(hay, needle) ==
    \E i \in 1..(Len(hay) + 1) :
        /\ i + Len(needle) - 1 <= Len(hay)
        /\ \A j \in 1..Len(needle) : hay[i + j - 1] = needle[j]

\* the names ClearCacheForFont is called with: the fonts, the empty name and a
\* name that is also a text
FontNameInputs == Fonts \cup {<<>>, <<"a">>}

\* the sum of memorySize over the entries of a cache
RECURSIVE SumMemory(_)
SumMemory(cache) ==
    IF DOMAIN cache = {} THEN 0
    ELSE LET k == CHOOSE key \in DOMAIN cache : TRUE
         IN  cache[k].memorySize + SumMemory(Remove(cache, k))

\* a clearing that erases the entries and keeps the byte count
ClearForFontKeepingSize(cache, size, fontName) ==
    [cache |-> [k \in { key \in DOMAIN cache : ~Find(key, fontName) } |->
                  cache[k]],
     size |-> size]

\* the loop of ClearCacheForFont: erase every entry whose key contains fontName
\* and take its memorySize off the byte count
ClearForFont(cache, size, fontName) ==
    LET erased == { key \in DOMAIN cache : Find(key, fontName) }
    IN  [cache |-> [k \in DOMAIN cache \ erased |-> cache[k]],
         size |-> size - SumMemory([k \in erased |-> cache[k]])]

\* TextRenderer::ClearCacheForFont
ClearCacheForFont ==
    /\ trPc = "idle"
    /\ \E fontName \in FontNameInputs :
          LET r == ClearForFont(m_textCache, m_currentCacheSize, fontName)
          IN  /\ m_textCache' = r.cache
              /\ m_currentCacheSize' = r.size
              /\ trLastOp' = [Op("ClearCacheForFont") EXCEPT !.key = fontName]
    /\ evictCall' = NoEvictCall
    /\ UNCHANGED <<tr_initialized, m_maxCacheSize, m_currentFrame, trPc,
                   trPending>>

\* TextRenderer::SetMaxCacheSize(maxSizeMB)
SetMaxCacheSize ==
    /\ trPc = "idle"
    /\ \E maxSizeMB \in 0..MaxCacheMB :
          /\ m_maxCacheSize' = maxSizeMB * MB
          /\ \E r \in EvictOldCacheEntries(m_textCache, m_currentCacheSize,
                                           maxSizeMB * MB) :
                /\ m_textCache' = r.cacheAfter
                /\ m_currentCacheSize' = r.sizeAfter
                /\ evictCall' = r
    /\ trLastOp' = Op("SetMaxCacheSize")
    /\ UNCHANGED <<tr_initialized, m_currentFrame, trPc, trPending>>


-----------------------------------------------------------------------------
(* nlohmann::json values.  A float is kept in thousandths. *)

JNull == [t |-> "null"]
JInt(n) == [t |-> "int", i |-> n]
JFloat(m) == [t |-> "float", f |-> m]
JBool(v) == [t |-> "bool", b |-> v]
JStr(str) == [t |-> "string", s |-> str]
JObj(fs) == [t |-> "object", fields |-> fs]
JArr == [t |-> "array"]

NoFields == [k \in {} |-> JNull]

\* basic_json::contains(key): false on anything but an object
Contains(j, key) == j.t = "object" /\ key \in DOMAIN j.fields

\* A key of an object is a string, kept whole
Key(name) == <<name>>

-----------------------------------------------------------------------------
(* utils::Config *)

\* Config::SplitPath: the non-empty runs of characters between dots
RECURSIVE SplitFrom(_, _, _, _)
SplitFrom(path, i, current, parts) ==
    IF i > Len(path)
    THEN IF current # <<>> THEN Append(parts, current) ELSE parts
    ELSE IF path[i] = "."
         THEN IF current # <<>>
              THEN SplitFrom(path, i + 1, <<>>, Append(parts, current))
              ELSE SplitFrom(path, i + 1, <<>>, parts)
         ELSE SplitFrom(path, i + 1, Append(current, path[i]), parts)

SplitPath(path) == SplitFrom(path, 1, <<>>, <<>>)

\* the value a pointer reached through `parts` points at
RECURSIVE ValueAt(_, _, _)
ValueAt(current, parts, i) ==
    IF i > Len(parts) THEN current
    ELSE ValueAt(current.fields[parts[i]], parts, i + 1)

\* *pointer = value
RECURSIVE Put(_, _, _, _)
Put(current, parts, i, value) ==
    IF i > Len(parts) THEN value
    ELSE JObj([current.fields EXCEPT
                  ![parts[i]] = Put(current.fields[parts[i]], parts, i + 1, value)])

\* basic_json::operator[](key) of a non-const value: null becomes an object, a
\* missing key is inserted as null, any other type throws type_error 305
Subscript(current, key) ==
    IF current.t = "null" THEN [threw |-> FALSE, node |-> JObj((key :> JNull))]
    ELSE IF current.t = "object"
         THEN [threw |-> FALSE,
               node |-> IF key \in DOMAIN current.fields THEN current
                        ELSE JObj(current.fields @@ (key :> JNull))]
         ELSE [threw |-> TRUE, node |-> current]

\* the loop of the non-const GetValuePointer from part i on; `node` is
\* *current as the loop leaves it
RECURSIVE Walk(_, _, _, _)
Walk(current, parts, i, createPath) ==
    LET part == parts[i]
    IN  IF i = Len(parts)
        THEN IF createPath \/ Contains(current, part)
             THEN LET sub == Subscript(current, part)
                  IN  [status |-> IF sub.threw THEN "throw" ELSE "ok",
                       node |-> sub.node]
             ELSE [status |-> "nullptr", node |-> current]
        ELSE IF ~Contains(current, part) /\ ~createPath
             THEN [status |-> "nullptr", node |-> current]
             ELSE LET sub == Subscript(current, part)
                  IN  IF sub.threw
                      THEN [status |-> "throw", node |-> current]
                      ELSE LET c1 == IF Contains(current, part) THEN current
                                     ELSE JObj([sub.node.fields EXCEPT
                                                   ![part] = JObj(NoFields)])
                               child == c1.fields[part]
                           IN  IF child.t # "object" /\ ~createPath
                               THEN [status |-> "nullptr", node |-> c1]
                               ELSE LET c2 == IF child.t = "object" THEN child
                                              ELSE JObj(NoFields)
                                        rest == Walk(c2, parts, i + 1, createPath)
                                    IN  [status |-> rest.status,
                                         node |-> JObj([c1.fields EXCEPT
                                                          ![part] = rest.node])]

\* nlohmann::json* Config::GetValuePointer(path, createPath)
GetValuePointer(cfg, path, createPath) ==
    LET parts == SplitPath(path)
    IN  IF parts = <<>> THEN [status |-> "ok", cfg |-> cfg]
        ELSE LET w == Walk(cfg, parts, 1, createPath)
             IN  [status |-> w.status, cfg |-> w.node]

\* the loop of the const GetValuePointer from part i on
RECURSIVE LookupConst(_, _, _)
LookupConst(current, parts, i) ==
    IF i > Len(parts) THEN [found |-> TRUE, value |-> current]
    ELSE IF ~Contains(current, parts[i]) THEN [found |-> FALSE, value |-> JNull]
         ELSE LookupConst(current.fields[parts[i]], parts, i + 1)

\* a lookup through the creating overload
GetValuePointerCreating(cfg, path) ==
    LET p == GetValuePointer(cfg, path, TRUE)
    IN  [cfg |-> p.cfg, found |-> p.status = "ok",
         value |-> IF p.status = "ok" THEN ValueAt(p.cfg, SplitPath(path), 1)
                   ELSE JNull]

\* const nlohmann::json* Config::GetValuePointer(path) const
GetValuePointerConst(cfg, path) ==
    LET r == LookupConst(cfg, SplitPath(path), 1)
    IN  [cfg |-> cfg, found |-> r.found, value |-> r.value]

\* The getters: the value returned and the document afterwards
GetInt(cfg, path, defaultValue) ==
    LET p == GetValuePointerConst(cfg, path)
    IN  [cfg |-> p.cfg,
         ret |-> IF p.found /\ p.value.t = "int" THEN JInt(p.value.i)
                 ELSE JInt(defaultValue)]

GetFloat(cfg, path, defaultValue) ==
    LET p == GetValuePointerConst(cfg, path)
    IN  [cfg |-> p.cfg,
         ret |-> IF p.found /\ p.value.t = "float" THEN JFloat(p.value.f)
                 ELSE IF p.found /\ p.value.t = "int"
                      THEN JFloat(p.value.i * 1000)
                      ELSE JFloat(defaultValue)]

GetBool(cfg, path, defaultValue) ==
    LET p == GetValuePointerConst(cfg, path)
    IN  [cfg |-> p.cfg,
         ret |-> IF p.found /\ p.value.t = "bool" THEN JBool(p.value.b)
                 ELSE JBool(defaultValue)]

GetString(cfg, path, defaultValue) ==
    LET p == GetValuePointerConst(cfg, path)
    IN  [cfg |-> p.cfg,
         ret |-> IF p.found /\ p.value.t = "string" THEN JStr(p.value.s)
                 ELSE JStr(defaultValue)]

Getter(kind, cfg, path, defaultValue) ==
    CASE kind = "Int" -> GetInt(cfg, path, defaultValue)
      [] kind = "Float" -> GetFloat(cfg, path, defaultValue)
      [] kind = "Bool" -> GetBool(cfg, path, defaultValue)
      [] kind = "String" -> GetString(cfg, path, defaultValue)

\* the json a C++ value of the kind becomes when it is assigned
AsJson(kind, value) ==
    CASE kind = "Int" -> JInt(value)
      [] kind = "Float" -> JFloat(value)
      [] kind = "Bool" -> JBool(value)
      [] kind = "String" -> JStr(value)

\* SetInt / SetFloat / SetBool / SetString: GetValuePointer(path, true), then
\* the assignment; an exception of operator[] leaves the call
Setter(kind, cfg, path, value) ==
    LET p == GetValuePointer(cfg, path, TRUE)
    IN  IF p.status = "ok"
        THEN [threw |-> FALSE, assigned |-> TRUE,
              cfg |-> Put(p.cfg, SplitPath(path), 1, AsJson(kind, value))]
        ELSE [threw |-> p.status = "throw", assigned |-> FALSE, cfg |-> p.cfg]

Fields3(k1, v1, k2, v2, k3, v3) ==
    (Key(k1) :> v1) @@ (Key(k2) :> v2) @@ (Key(k3) :> v3)
Fields4(k1, v1, k2, v2, k3, v3, k4, v4) ==
    Fields3(k1, v1, k2, v2, k3, v3) @@ (Key(k4) :> v4)
Fields5(k1, v1, k2, v2, k3, v3, k4, v4, k5, v5) ==
    Fields4(k1, v1, k2, v2, k3, v3, k4, v4) @@ (Key(k5) :> v5)

DefaultWindow ==
    JObj(Fields5("width", JInt(1280), "height", JInt(720),
                 "fullscreen", JBool(FALSE), "vsync", JBool(TRUE),
                 "title", JStr(<<"SDL2 Game">>)))
DefaultGraphics ==
    JObj(Fields4("renderer", JStr(<<"opengl">>), "antialiasing", JBool(TRUE),
                 "texture_filtering", JStr(<<"linear">>),
                 "shadow_quality", JStr(<<"medium">>)))
DefaultAudio ==
    JObj(Fields4("master_volume", JFloat(1000), "music_volume", JFloat(800),
                 "sfx_volume", JFloat(1000), "muted", JBool(FALSE)))
DefaultKeyBindings ==
    JObj(Fields4("move_up", JStr(<<"W">>), "move_down", JStr(<<"S">>),
                 "move_left", JStr(<<"A">>), "move_right", JStr(<<"D">>))
         @@ Fields3("jump", JStr(<<"Space">>), "action", JStr(<<"E">>),
                    "menu", JStr(<<"Escape">>)))
DefaultInput ==
    JObj(Fields3("mouse_sensitivity", JFloat(1000), "invert_mouse", JBool(FALSE),
                 "key_bindings", DefaultKeyBindings))
DefaultGame ==
    JObj(Fields4("difficulty", JStr(<<"normal">>), "auto_save", JBool(TRUE),
                 "show_fps", JBool(FALSE), "language", JStr(<<"en">>)))

\* a default document without the window section
CreateDefaultConfigNoWindow ==
    JObj(Fields4("graphics", DefaultGraphics, "audio", DefaultAudio,
                 "input", DefaultInput, "game", DefaultGame))

\* Config::CreateDefaultConfig
CreateDefaultConfig ==
    JObj(Fields5("window", DefaultWindow, "graphics", DefaultGraphics,
                 "audio", DefaultAudio, "input", DefaultInput,
                 "game", DefaultGame))

\* The settings file: absent, not JSON, or a JSON document
FileMissing == [kind |-> "missing"]
FileGarbage == [kind |-> "garbage"]
FileJson(doc) == [kind |-> "json", doc |-> doc]

SettingsFile == <<"assets/settings.json">>

\* Inputs of the calls explored
PathInputs ==
    { <<>>, <<".">>, <<"a">>, <<"a", ".", "a">>,
      <<".", "a", ".", ".", "a", ".">>, <<"window", ".", "width">> }
\* the setters are explored on the paths outside the default document, with
\* two of the four types; the other two types come from the files loaded
SetPathInputs == PathInputs \ {<<"window", ".", "width">>}
Kinds == {"Int", "Float", "Bool", "String"}
SetKinds == {"Int", "String"}
ValuesOf(kind) ==
    CASE kind = "Int" -> {0, 7}
      [] kind = "Float" -> {0, 500}
      [] kind = "Bool" -> BOOLEAN
      [] kind = "String" -> {<<>>, <<"x">>}
\* the defaults passed to the getters differ from every value set
DefaultsOf(kind) ==
    CASE kind = "Int" -> {0}
      [] kind = "Float" -> {0}
      [] kind = "Bool" -> {FALSE}
      [] kind = "String" -> {<<>>}
SetValuesOf(kind) ==
    CASE kind = "Int" -> {7}
      [] kind = "Float" -> {500}
      [] kind = "Bool" -> {TRUE}
      [] kind = "String" -> {<<"x">>}

NoCfgOp == [op |-> "none", kind |-> "none", path |-> <<>>, arg |-> JNull,
            ret |-> JNull, threw |-> FALSE, found |-> "none"]

ConfigInit ==
    /\ m_config = JNull
    /\ m_configPath = <<>>
    /\ m_hasUnsavedChanges = FALSE
    /\ cfgFile \in {FileMissing, FileGarbage, FileJson(JArr),
                    FileJson(JObj((Key("a") :> JFloat(500)))),
                    FileJson(JObj((Key("a") :> JObj((Key("a") :> JBool(TRUE))))))}
    /\ cfgLastOp = NoCfgOp

\* Config::Save(filename), as Load calls it
ConfigSave(cfg, configPath, filename, canWrite) ==
    LET saveFile == IF filename = <<>> THEN configPath ELSE filename
    IN  IF saveFile = <<>> THEN [ret |-> FALSE, wrote |-> FALSE]
        ELSE IF ~canWrite THEN [ret |-> FALSE, wrote |-> FALSE]
        ELSE [ret |-> TRUE, wrote |-> TRUE]

\* Config::LoadDefaults
LoadDefaults == CreateDefaultConfig

\* Config::Load(filename).  canWrite: an ofstream on the file opens;
\* reopened: the second ifstream on an existing file opens.
CfgLoad ==
    \E filename \in {<<>>, SettingsFile}, canWrite \in BOOLEAN,
       reopened \in BOOLEAN :
        LET exists == filename = SettingsFile /\ cfgFile.kind # "missing"
            op == [NoCfgOp EXCEPT !.op = "Load", !.path = filename]
        IN  /\ m_configPath' = filename
            /\ IF ~exists
               THEN LET saved == ConfigSave(LoadDefaults, filename, filename,
                                            canWrite)
                    IN  /\ m_config' = LoadDefaults
                        /\ m_hasUnsavedChanges' = ~saved.ret
                        /\ cfgFile' = IF saved.wrote THEN FileJson(LoadDefaults)
                                      ELSE cfgFile
                        /\ cfgLastOp' = [op EXCEPT !.found = "missing",
                                                   !.ret = JBool(saved.ret)]
               ELSE IF ~reopened
               THEN /\ m_config' = LoadDefaults
                    /\ m_hasUnsavedChanges' = TRUE
                    /\ cfgLastOp' = [op EXCEPT !.found = "unopenable",
                                               !.ret = JBool(FALSE)]
                    /\ UNCHANGED cfgFile
               ELSE IF cfgFile.kind = "garbage"
               THEN /\ m_config' = LoadDefaults
                    /\ m_hasUnsavedChanges' = TRUE
                    /\ cfgLastOp' = [op EXCEPT !.found = "unparseable",
                                               !.ret = JBool(FALSE)]
                    /\ UNCHANGED cfgFile
               ELSE /\ m_config' = cfgFile.doc
                    /\ m_hasUnsavedChanges' = FALSE
                    /\ cfgLastOp' = [op EXCEPT !.found = "parsed",
                                               !.ret = JBool(TRUE)]
                    /\ UNCHANGED cfgFile

\* Config::GetInt / GetFloat / GetBool / GetString
CfgGet ==
    \E kind \in Kinds, path \in PathInputs :
      \E defaultValue \in DefaultsOf(kind) :
        LET r == Getter(kind, m_config, path, defaultValue)
        IN  /\ m_config' = r.cfg
            /\ cfgLastOp' = [NoCfgOp EXCEPT !.op = "Get", !.kind = kind,
                                !.path = path,
                                !.arg = AsJson(kind, defaultValue),
                                !.ret = r.ret]
            /\ UNCHANGED <<m_configPath, m_hasUnsavedChanges, cfgFile>>

\* Config::SetInt / SetFloat / SetBool / SetString
CfgSet ==
    \E kind \in SetKinds, path \in SetPathInputs :
      \E value \in SetValuesOf(kind) :
        LET r == Setter(kind, m_config, path, value)
        IN  /\ m_config' = r.cfg
            /\ m_hasUnsavedChanges' = (m_hasUnsavedChanges \/ r.assigned)
            /\ cfgLastOp' = [NoCfgOp EXCEPT !.op = "Set", !.kind = kind,
                                !.path = path, !.arg = AsJson(kind, value),
                                !.threw = r.threw]
            /\ UNCHANGED <<m_configPath, cfgFile>>

\* Config::Reset
CfgReset ==
    /\ m_config' = LoadDefaults
    /\ m_hasUnsavedChanges' = TRUE
    /\ cfgLastOp' = [NoCfgOp EXCEPT !.op = "Reset"]
    /\ UNCHANGED <<m_configPath, cfgFile>>

-----------------------------------------------------------------------------
(* save::SaveManager *)

\* Values of the C++ types T the templates are instantiated with: int, double
\* (thousandths, or infinity) and std::string (a sequence of characters, one
\* of which may be a byte that is not valid UTF-8)
CInt(n) == [ty |-> "int", v |-> n]
CDouble(m) == [ty |-> "double", v |-> m, inf |-> FALSE]
CInfinity == [ty |-> "double", v |-> 0, inf |-> TRUE]
CString(str) == [ty |-> "string", v |-> str]
NoValue == [ty |-> "none", v |-> 0]

InvalidByte == "<FF>"

Types == {"int", "double", "string"}
DataOf(T) ==
    CASE T = "int" -> {CInt(1)}
      [] T = "double" -> {CDouble(500), CInfinity}
      [] T = "string" -> {CString(<<"x">>), CString(<<InvalidByte>>)}

\* std::optional<T>, and the bool a saving call returns
None == [some |-> FALSE, value |-> NoValue]
Some(value) == [some |-> TRUE, value |-> value]
Returned(success) == [some |-> success, value |-> NoValue]

\* a json number holding a non-finite double
JNonFinite == [t |-> "float", f |-> 0, inf |-> TRUE]

\* nlohmann::json jsonData = data
ToJson(d) ==
    CASE d.ty = "int" -> JInt(d.v)
      [] d.ty = "double" -> IF d.inf THEN JNonFinite ELSE JFloat(d.v)
      [] d.ty = "string" -> JStr(d.v)

\* T result = json: the conversions of nlohmann::json, which throw
\* type_error 302 (here None) on a json type they do not accept
FromJson(T, j) ==
    CASE T = "int" ->
            IF j.t = "int" THEN Some(CInt(j.i))
            ELSE IF j.t = "float" THEN Some(CInt(j.f \div 1000))
            ELSE IF j.t = "bool" THEN Some(CInt(IF j.b THEN 1 ELSE 0))
            ELSE None
      [] T = "double" ->
            IF j.t = "int" THEN Some(CDouble(j.i * 1000))
            ELSE IF j.t = "float" THEN Some(CDouble(j.f))
            ELSE None
      [] T = "string" ->
            IF j.t = "string" THEN Some(CString(j.s)) ELSE None

\* json::dump throws type_error 316 on a string that is not valid UTF-8
RECURSIVE DumpThrows(_)
DumpThrows(j) ==
    IF j.t = "string" THEN \E i \in 1..Len(j.s) : j.s[i] = InvalidByte
    ELSE IF j.t = "object" THEN \E k \in DOMAIN j.fields : DumpThrows(j.fields[k])
    ELSE FALSE

\* the document the text of json::dump parses to: NaN and the infinities are
\* written as null
RECURSIVE Dump(_)
Dump(j) ==
    IF j.t = "float" /\ j = JNonFinite THEN JNull
    ELSE IF j.t = "object" THEN JObj([k \in DOMAIN j.fields |-> Dump(j.fields[k])])
    ELSE j

\* SaveManager::GetTypeName<T>: typeid(T).name() after its last ':'
GetTypeName(T) ==
    CASE T = "int" -> <<"i">>
      [] T = "double" -> <<"d">>
      [] T = "string" -> <<"NSt7__cxx1112basic_stringIcSt11char_traitsIcESaIcEEE">>

GameName == <<"UnknownGame">>
SaveDirectory == <<"saves">>
SaveVersion == <<"1.0.0">>
Slots == {<<"s">>}
SlotInputs == Slots \cup {<<>>}

TimeDigits == <<"0", "1", "2", "3", "4", "5", "6", "7", "8", "9">>

\* SaveManager::GenerateTimestamp: the wall clock, to the second
GenerateTimestamp(clock) == <<TimeDigits[clock + 1]>>

\* SaveManager::GenerateSaveFilename
GenerateSaveFilename(slotName, clock) ==
    GameName \o <<"_">> \o slotName \o <<"_">> \o GenerateTimestamp(clock)
        \o <<".json">>

\* SaveManager::GenerateQuicksaveFilename<T>
GenerateQuicksaveFilename(T, clock) ==
    GameName \o <<"_">> \o GetTypeName(T) \o <<"_", "quicksave", "_">>
        \o GenerateTimestamp(clock) \o <<".json">>

GetSlotPath(slotName) == SaveDirectory \o <<"/">> \o slotName
GetQuicksavePath == SaveDirectory \o <<"/", "quicksave">>
QuicksaveTypePath(typeName) == GetQuicksavePath \o <<"/">> \o typeName
GetQuicksaveTypePath(T) == QuicksaveTypePath(GetTypeName(T))

FullPath(dir, filename) == dir \o <<"/">> \o filename

\* std::filesystem::directory_iterator(dir): the regular files right in dir
FilesIn(fs, dir) ==
    { p \in DOMAIN fs :
        /\ Len(p) > Len(dir) + 1
        /\ SubSeq(p, 1, Len(dir)) = dir
        /\ p[Len(dir) + 1] = "/"
        /\ \A i \in (Len(dir) + 2)..Len(p) : p[i] # "/" }

\* ... of which those with the extension .json
JsonFilesIn(fs, dir) == { p \in FilesIn(fs, dir) : p[Len(p)] = ".json" }

NoFiles == [p \in {} |-> FileMissing]
WriteFile(fs, path, content) ==
    [p \in DOMAIN fs \cup {path} |-> IF p = path THEN content ELSE fs[p]]
RemoveFiles(fs, paths) == [p \in DOMAIN fs \ paths |-> fs[p]]

\* the envelope Save and Quicksave build
Envelope(T, clock, jsonData) ==
    JObj(Fields4("version", JStr(SaveVersion),
                 "timestamp", JStr(GenerateTimestamp(clock)),
                 "type", JStr(GetTypeName(T)),
                 "data", jsonData))

\* SaveManager::SaveJson: the ofstream creates or truncates the file, then
\* dump may throw, which leaves the file empty
SaveJson(fs, filePath, data, opened) ==
    IF ~opened THEN [ret |-> FALSE, fs |-> fs]
    ELSE IF DumpThrows(data)
         THEN [ret |-> FALSE, fs |-> WriteFile(fs, filePath, FileGarbage)]
         ELSE [ret |-> TRUE, fs |-> WriteFile(fs, filePath, FileJson(Dump(data)))]

\* SaveManager::LoadJson
LoadJson(fs, filePath) ==
    IF filePath \notin DOMAIN fs THEN [has_value |-> FALSE, doc |-> JNull]
    ELSE IF fs[filePath].kind # "json" THEN [has_value |-> FALSE, doc |-> JNull]
    ELSE [has_value |-> TRUE, doc |-> fs[filePath].doc]

\* a version the loads let through
VersionIgnored(version) == TRUE

\* std::string version = (*jsonData)["version"]; version != "1.0.0"
\* (the conversion throws on a version that is not a string)
VersionAccepted(version) == version.t = "string" /\ version.s = SaveVersion

\* what Load and LoadQuicksave do with the file once they have its path
LoadEnvelope(T, fs, fullPath) ==
    LET jsonData == LoadJson(fs, fullPath)
    IN  IF ~jsonData.has_value THEN None
        ELSE IF ~Contains(jsonData.doc, Key("version"))
                \/ ~Contains(jsonData.doc, Key("data")) THEN None
        ELSE IF ~VersionAccepted(jsonData.doc.fields[Key("version")]) THEN None
        ELSE FromJson(T, jsonData.doc.fields[Key("data")])

NoSaveOp == [op |-> "none", T |-> "none", slot |-> <<>>, file |-> <<>>,
             data |-> NoValue, ret |-> None]

SaveInit ==
    /\ sm_initialized = FALSE
    /\ files = NoFiles
    /\ now = 1
    /\ qsLast = [T \in Types |-> NoSaveOp]
    /\ smLastOp = NoSaveOp

\* SaveManager::Initialize; created: EnsureDirectoryExists did not throw
SMInitialize ==
    \E created \in BOOLEAN :
        /\ sm_initialized' = (sm_initialized \/ created)
        /\ smLastOp' = [NoSaveOp EXCEPT !.op = "Initialize",
                           !.ret = Returned(sm_initialized \/ created)]
        /\ UNCHANGED <<files, now, qsLast>>

\* SaveManager::Shutdown
SMShutdown ==
    /\ sm_initialized' = FALSE
    /\ smLastOp' = [NoSaveOp EXCEPT !.op = "Shutdown"]
    /\ UNCHANGED <<files, now, qsLast>>

\* a second of wall-clock time passes
Tick ==
    /\ now < MaxTime
    /\ now' = now + 1
    /\ smLastOp' = NoSaveOp
    /\ UNCHANGED <<sm_initialized, files, qsLast>>

\* SaveManager::Save<T>(slotName, data)
Save ==
    \E T \in Types, slotName \in SlotInputs, created \in BOOLEAN,
       opened \in BOOLEAN :
      \E data \in DataOf(T) :
        LET fullPath == FullPath(GetSlotPath(slotName),
                                 GenerateSaveFilename(slotName, now))
            op == [NoSaveOp EXCEPT !.op = "Save", !.T = T, !.slot = slotName,
                                   !.data = data]
            saved == SaveJson(files, fullPath, Envelope(T, now, ToJson(data)),
                              opened)
        IN  /\ IF ~sm_initialized \/ slotName = <<>> \/ ~created
               THEN /\ smLastOp' = op
                    /\ UNCHANGED files
               ELSE /\ files' = saved.fs
                    /\ smLastOp' = [op EXCEPT !.file = fullPath,
                                              !.ret = Returned(saved.ret)]
            /\ UNCHANGED <<sm_initialized, now, qsLast>>

\* the file names a caller passes to Load: none, one of the slot, or the one
\* Save would generate now
FilenameInputs(slotName) ==
    {<<>>, GenerateSaveFilename(slotName, now)} \cup
        { SubSeq(p, Len(GetSlotPath(slotName)) + 2, Len(p)) :
            p \in FilesIn(files, GetSlotPath(slotName)) }

\* SaveManager::Load<T>(slotName, filename)
Load ==
    \E T \in Types, slotName \in SlotInputs :
      \E filename \in FilenameInputs(slotName) :
        LET fullPath == FullPath(GetSlotPath(slotName), filename)
            op == [NoSaveOp EXCEPT !.op = "Load", !.T = T, !.slot = slotName]
        IN  /\ IF ~sm_initialized \/ slotName = <<>> \/ filename = <<>>
               THEN smLastOp' = op
               ELSE smLastOp' = [op EXCEPT !.file = fullPath,
                                           !.ret = LoadEnvelope(T, files, fullPath)]
            /\ UNCHANGED <<sm_initialized, files, now, qsLast>>

\* SaveManager::GetSavesInSlot: the .json files of the slot's directory
GetSavesInSlot(fs, slotName, initialized) ==
    IF ~initialized THEN {} ELSE JsonFilesIn(fs, GetSlotPath(slotName))

\* SaveManager::GetSlotSaveCount
GetSlotSaveCount(fs, slotName, initialized) ==
    Cardinality(GetSavesInSlot(fs, slotName, initialized))

\* SaveManager::QuicksaveExists<T>
QuicksaveExists(T, fs) == JsonFilesIn(fs, GetQuicksaveTypePath(T)) # {}

\* the files DeleteQuicksave(typeName) leaves
DeleteQuicksaveFiles(fs, typeName) ==
    RemoveFiles(fs, FilesIn(fs, QuicksaveTypePath(typeName)))

\* SaveManager::Quicksave<T>(data)
Quicksave ==
    \E T \in Types, created \in BOOLEAN, opened \in BOOLEAN :
      \E data \in DataOf(T) :
        LET fullPath == FullPath(GetQuicksaveTypePath(T),
                                 GenerateQuicksaveFilename(T, now))
            op == [NoSaveOp EXCEPT !.op = "Quicksave", !.T = T, !.data = data]
            cleared == IF QuicksaveExists(T, files)
                       THEN DeleteQuicksaveFiles(files, GetTypeName(T))
                       ELSE files
            saved == SaveJson(cleared, fullPath, Envelope(T, now, ToJson(data)),
                              opened)
        IN  /\ IF ~sm_initialized \/ ~created
               THEN /\ smLastOp' = op
                    /\ UNCHANGED <<files, qsLast>>
               ELSE /\ files' = saved.fs
                    /\ smLastOp' = [op EXCEPT !.file = fullPath,
                                              !.ret = Returned(saved.ret)]
                    /\ qsLast' = IF saved.ret
                                 THEN [qsLast EXCEPT ![T] =
                                          [op EXCEPT !.file = fullPath,
                                                     !.ret = Returned(TRUE)]]
                                 ELSE qsLast
            /\ UNCHANGED <<sm_initialized, now>>

\* SaveManager::LoadQuicksave<T>: saves[0] is the first .json file the
\* directory iteration yields, in an order the file system chooses
LoadQuicksave ==
    \E T \in Types :
        LET saves == JsonFilesIn(files, GetQuicksaveTypePath(T))
            op == [NoSaveOp EXCEPT !.op = "LoadQuicksave", !.T = T]
        IN  /\ IF ~sm_initialized \/ saves = {}
               THEN smLastOp' = op
               ELSE \E first \in saves :
                        smLastOp' = [op EXCEPT !.file = first,
                                        !.ret = LoadEnvelope(T, files, first)]
            /\ UNCHANGED <<sm_initialized, files, now, qsLast>>

\* SaveManager::DeleteQuicksave(typeName)
DeleteQuicksave ==
    \E T \in Types :
        /\ files' = IF sm_initialized
                    THEN DeleteQuicksaveFiles(files, GetTypeName(T))
                    ELSE files
        /\ smLastOp' = [NoSaveOp EXCEPT !.op = "DeleteQuicksave", !.T = T,
                           !.ret = Returned(sm_initialized)]
        /\ UNCHANGED <<sm_initialized, now, qsLast>>

\* Files that did not come from this SaveManager: edited by hand, written by
\* another version of the game, cut short
ForeignEnvelopes ==
    { JArr,
      JObj(Fields3("version", JStr(<<"2.0.0">>), "type", JStr(<<"d">>),
                   "data", JFloat(500))),
      JObj((Key("data") :> JFloat(500))),
      JObj((Key("version") :> JStr(SaveVersion))),
      JObj((Key("version") :> JInt(1)) @@ (Key("data") :> JFloat(500))),
      JObj((Key("version") :> JStr(SaveVersion)) @@ (Key("data") :> JFloat(500))) }
ForeignContents == {FileGarbage} \cup { FileJson(doc) : doc \in ForeignEnvelopes }
ForeignPaths ==
    { FullPath(GetSlotPath(slotName), <<"other", ".json">>) : slotName \in Slots }
        \cup { FullPath(GetQuicksaveTypePath("double"), name) :
                 name \in {<<"other", ".json">>, <<"older", ".json">>} }

\* the environment puts such a file into a save directory
ForeignWrite ==
    \E path \in ForeignPaths, content \in ForeignContents :
        /\ files' = WriteFile(files, path, content)
        /\ smLastOp' = NoSaveOp
        /\ UNCHANGED <<sm_initialized, now, qsLast>>

-----------------------------------------------------------------------------
(* audio::AudioManager, over the part of SDL_mixer it drives: one music
   player and NumChannels mixing channels *)

INVALID_AUDIO_HANDLE == -1

SoundNames == {"click"}
StreamNames == {"theme", "boss"}
Channels == 0..(NumChannels - 1)

NoMusic == [name |-> "none", loop |-> FALSE]
NoAudioOp == [op |-> "none", name |-> "none", ret |-> INVALID_AUDIO_HANDLE]

\* the tracked entries that are streams
TrackedStreams(playing) == { h \in DOMAIN playing : playing[h].isStream }

\* a stop that leaves everything as it is
AuStopNothing(st, handle) == st

\* AudioManager::StopAudio(handle) on the state st = [playing, current,
\* music, channels]
AuStop(st, handle) ==
    IF handle \notin DOMAIN st.playing THEN st
    ELSE LET audio == st.playing[handle]
             rest == [h \in DOMAIN st.playing \ {handle} |-> st.playing[h]]
         IN  IF audio.isStream
             THEN [st EXCEPT !.music = NoMusic,
                             !.current = IF st.current = handle
                                         THEN INVALID_AUDIO_HANDLE
                                         ELSE st.current,
                             !.playing = rest]
             ELSE [st EXCEPT !.channels[audio.channel] = "none",
                             !.playing = rest]

\* AudioManager::CleanupFinishedSounds
AuCleanup(st) ==
    LET finished == { h \in DOMAIN st.playing :
                        IF st.playing[h].isStream
                        THEN st.music = NoMusic
                        ELSE st.channels[st.playing[h].channel] = "none" }
    IN  [st EXCEPT !.playing = [h \in DOMAIN st.playing \ finished |->
                                   st.playing[h]],
                   !.current = IF st.current \in finished
                               THEN INVALID_AUDIO_HANDLE ELSE st.current]

\* AudioManager::StopAll
AuStopAll(st) ==
    [st EXCEPT !.music = NoMusic,
               !.channels = [c \in Channels |-> "none"],
               !.playing = <<>>,
               !.current = INVALID_AUDIO_HANDLE]

AuState ==
    [playing |-> m_playingAudio, current |-> m_currentMusicHandle,
     music |-> mixMusic, channels |-> mixChannels]

AuInstall(st) ==
    /\ m_playingAudio' = st.playing
    /\ m_currentMusicHandle' = st.current
    /\ mixMusic' = st.music
    /\ mixChannels' = st.channels

AudioInit ==
    /\ au_initialized = FALSE
    /\ m_sounds = {}
    /\ m_streams = {}
    /\ m_playingAudio = <<>>
    /\ m_nextHandle = 1
    /\ m_currentMusicHandle = INVALID_AUDIO_HANDLE
    /\ mixMusic = NoMusic
    /\ mixChannels = [c \in Channels |-> "none"]
    /\ auLastOp = NoAudioOp

\* AudioManager::Initialize; opened: Mix_OpenAudio succeeded
AuInitialize ==
    \E opened \in BOOLEAN :
        /\ au_initialized' = (au_initialized \/ opened)
        /\ auLastOp' = [NoAudioOp EXCEPT !.op = "Initialize"]
        /\ UNCHANGED <<m_sounds, m_streams, m_playingAudio, m_nextHandle,
                       m_currentMusicHandle, mixMusic, mixChannels>>

\* AudioManager::Shutdown
AuShutdown ==
    /\ IF au_initialized
       THEN /\ AuInstall(AuStopAll(AuState))
            /\ m_sounds' = {}
            /\ m_streams' = {}
            /\ au_initialized' = FALSE
       ELSE UNCHANGED <<au_initialized, m_sounds, m_streams, m_playingAudio,
                        m_currentMusicHandle, mixMusic, mixChannels>>
    /\ auLastOp' = [NoAudioOp EXCEPT !.op = "Shutdown"]
    /\ UNCHANGED m_nextHandle

\* AudioManager::Update
AuUpdate ==
    /\ IF au_initialized
       THEN AuInstall(AuCleanup(AuState))
       ELSE UNCHANGED <<m_playingAudio, m_currentMusicHandle, mixMusic,
                        mixChannels>>
    /\ auLastOp' = [NoAudioOp EXCEPT !.op = "Update"]
    /\ UNCHANGED <<au_initialized, m_sounds, m_streams, m_nextHandle>>

\* AudioManager::LoadSound; loaded: the file exists and Mix_LoadWAV succeeded
LoadSound ==
    \E name \in SoundNames, loaded \in BOOLEAN :
        /\ m_sounds' = IF au_initialized /\ loaded THEN m_sounds \cup {name}
                       ELSE m_sounds
        /\ auLastOp' = [NoAudioOp EXCEPT !.op = "LoadSound", !.name = name]
        /\ UNCHANGED <<au_initialized, m_streams, m_playingAudio, m_nextHandle,
                       m_currentMusicHandle, mixMusic, mixChannels>>

\* AudioManager::LoadStream; loaded: the file exists and Mix_LoadMUS succeeded
LoadStream ==
    \E name \in StreamNames, loaded \in BOOLEAN :
        /\ m_streams' = IF au_initialized /\ loaded THEN m_streams \cup {name}
                        ELSE m_streams
        /\ auLastOp' = [NoAudioOp EXCEPT !.op = "LoadStream", !.name = name]
        /\ UNCHANGED <<au_initialized, m_sounds, m_playingAudio, m_nextHandle,
                       m_currentMusicHandle, mixMusic, mixChannels>>

\* AudioManager::UnloadSound; Mix_FreeChunk halts the channels playing it
UnloadSound ==
    \E name \in SoundNames :
        /\ m_sounds' = m_sounds \ {name}
        /\ mixChannels' = IF name \in m_sounds
                          THEN [c \in Channels |->
                                   IF mixChannels[c] = name THEN "none"
                                   ELSE mixChannels[c]]
                          ELSE mixChannels
        /\ auLastOp' = [NoAudioOp EXCEPT !.op = "UnloadSound", !.name = name]
        /\ UNCHANGED <<au_initialized, m_streams, m_playingAudio, m_nextHandle,
                       m_currentMusicHandle, mixMusic>>

\* AudioManager::UnloadStream; Mix_FreeMusic halts the music if it plays
UnloadStream ==
    \E name \in StreamNames :
        LET st == AuState
            stopped == IF /\ st.current # INVALID_AUDIO_HANDLE
                          /\ st.current \in DOMAIN st.playing
                          /\ st.playing[st.current].isStream
                       THEN [st EXCEPT
                               !.music = NoMusic,
                               !.playing = [h \in DOMAIN st.playing \ {st.current}
                                               |-> st.playing[h]],
                               !.current = INVALID_AUDIO_HANDLE]
                       ELSE st
            freed == IF stopped.music.name = name
                     THEN [stopped EXCEPT !.music = NoMusic] ELSE stopped
        IN  /\ IF name \in m_streams
               THEN AuInstall(freed)
               ELSE UNCHANGED <<m_playingAudio, m_currentMusicHandle, mixMusic,
                                mixChannels>>
            /\ m_streams' = m_streams \ {name}
            /\ auLastOp' = [NoAudioOp EXCEPT !.op = "UnloadStream", !.name = name]
            /\ UNCHANGED <<au_initialized, m_sounds, m_nextHandle>>

\* AudioManager::PlaySound; Mix_PlayChannel(-1, ...) takes the first free
\* channel and fails when there is none
PlaySound ==
    \E name \in SoundNames :
        LET free == { c \in Channels : mixChannels[c] = "none" }
            channel == CHOOSE c \in free : \A other \in free : c <= other
            op == [NoAudioOp EXCEPT !.op = "PlaySound", !.name = name]
        IN  /\ m_nextHandle <= MaxHandle
            /\ IF ~au_initialized \/ name \notin m_sounds \/ free = {}
               THEN /\ auLastOp' = op
                    /\ UNCHANGED <<m_playingAudio, m_nextHandle, mixChannels>>
               ELSE /\ mixChannels' = [mixChannels EXCEPT ![channel] = name]
                    /\ m_playingAudio' =
                          [h \in DOMAIN m_playingAudio \cup {m_nextHandle} |->
                              IF h = m_nextHandle
                              THEN [channel |-> channel, isStream |-> FALSE]
                              ELSE m_playingAudio[h]]
                    /\ m_nextHandle' = m_nextHandle + 1
                    /\ auLastOp' = [op EXCEPT !.ret = m_nextHandle]
            /\ UNCHANGED <<au_initialized, m_sounds, m_streams,
                           m_currentMusicHandle, mixMusic>>

\* AudioManager::PlayStream; started: Mix_PlayMusic succeeded
PlayStream ==
    \E name \in StreamNames, loop \in BOOLEAN, started \in BOOLEAN :
        LET st == AuState
            stopped == IF st.current # INVALID_AUDIO_HANDLE
                       THEN AuStop(st, st.current) ELSE st
            op == [NoAudioOp EXCEPT !.op = "PlayStream", !.name = name]
        IN  /\ m_nextHandle <= MaxHandle
            /\ IF ~au_initialized \/ name \notin m_streams
               THEN /\ auLastOp' = op
                    /\ UNCHANGED <<m_playingAudio, m_nextHandle,
                                   m_currentMusicHandle, mixMusic, mixChannels>>
               ELSE IF ~started
               THEN /\ AuInstall(stopped)
                    /\ auLastOp' = op
                    /\ UNCHANGED m_nextHandle
               ELSE /\ AuInstall(
                          [stopped EXCEPT
                             !.music = [name |-> name, loop |-> loop],
                             !.current = m_nextHandle,
                             !.playing =
                                [h \in DOMAIN stopped.playing \cup {m_nextHandle}
                                   |-> IF h = m_nextHandle
                                       THEN [channel |-> -1, isStream |-> TRUE]
                                       ELSE stopped.playing[h]]])
                    /\ m_nextHandle' = m_nextHandle + 1
                    /\ auLastOp' = [op EXCEPT !.ret = m_nextHandle]
            /\ UNCHANGED <<au_initialized, m_sounds, m_streams>>

\* AudioManager::StopAudio
StopAudio ==
    \E handle \in {INVALID_AUDIO_HANDLE} \cup (1..MaxHandle) :
        /\ AuInstall(AuStop(AuState, handle))
        /\ auLastOp' = [NoAudioOp EXCEPT !.op = "StopAudio", !.ret = handle]
        /\ UNCHANGED <<au_initialized, m_sounds, m_streams, m_nextHandle>>

\* AudioManager::StopAll
StopAll ==
    /\ AuInstall(AuStopAll(AuState))
    /\ auLastOp' = [NoAudioOp EXCEPT !.op = "StopAll"]
    /\ UNCHANGED <<au_initialized, m_sounds, m_streams, m_nextHandle>>

\* SDL_mixer: a music that does not loop plays to its end
MusicFinished ==
    /\ mixMusic # NoMusic
    /\ ~mixMusic.loop
    /\ mixMusic' = NoMusic
    /\ auLastOp' = NoAudioOp
    /\ UNCHANGED <<au_initialized, m_sounds, m_streams, m_playingAudio,
                   m_nextHandle, m_currentMusicHandle, mixChannels>>

\* SDL_mixer: the chunk on a channel plays to its end
ChannelFinished ==
    \E c \in Channels :
        /\ mixChannels[c] # "none"
        /\ mixChannels' = [mixChannels EXCEPT ![c] = "none"]
        /\ auLastOp' = NoAudioOp
        /\ UNCHANGED <<au_initialized, m_sounds, m_streams, m_playingAudio,
                       m_nextHandle, m_currentMusicHandle, mixMusic>>

-----------------------------------------------------------------------------
(* input::Input, over SDL's keyboard state array.  SDL_GetKeyboardState
   returns a pointer to the array SDL itself updates whenever events are
   pumped; m_currentKeyState holds that pointer, m_previousKeyState a copy. *)

InputKeys == {"SPACE", "W"}
AllUp == [k \in InputKeys |-> FALSE]

\* *m_currentKeyState: the array the pointer leads to
CurrentKeyState == sdlKeyState

\* Input::IsKeyPressed
IsKeyPressed(key) ==
    IF m_currentKeyState = "null" THEN FALSE ELSE CurrentKeyState[key]

\* Input::IsKeyJustPressed
IsKeyJustPressed(key) ==
    IF m_currentKeyState = "null" \/ ~m_previousKeyState.allocated THEN FALSE
    ELSE CurrentKeyState[key] /\ ~m_previousKeyState.keys[key]

InputInit ==
    /\ keyboard = AllUp
    /\ sdlKeyState = AllUp
    /\ m_currentKeyState = "null"
    /\ m_previousKeyState = [allocated |-> FALSE, keys |-> AllUp]
    /\ inputPc = "events"
    /\ frameKeys = [now |-> AllUp, before |-> AllUp, frames |-> "none"]
    /\ justPressed = AllUp

\* the player presses or releases a key
KeyChange ==
    \E k \in InputKeys :
        /\ keyboard' = [keyboard EXCEPT ![k] = ~keyboard[k]]
        /\ UNCHANGED <<sdlKeyState, m_currentKeyState, m_previousKeyState,
                       inputPc, frameKeys, justPressed>>

\* Engine::HandleEvents: the SDL_PollEvent loop pumps the events, which
\* brings SDL's array up to date
InputHandleEvents ==
    /\ inputPc = "events"
    /\ sdlKeyState' = keyboard
    /\ frameKeys' = [now |-> keyboard, before |-> frameKeys.now,
                     frames |-> IF frameKeys.frames = "none" THEN "first"
                                ELSE "later"]
    /\ inputPc' = "inputUpdate"
    /\ UNCHANGED <<keyboard, m_currentKeyState, m_previousKeyState, justPressed>>

\* Input::Update, first call of Engine::Update
InputUpdate ==
    /\ inputPc = "inputUpdate"
    /\ m_currentKeyState' = "sdl"
    /\ m_previousKeyState' =
          IF m_currentKeyState # "null" /\ m_previousKeyState.allocated
          THEN [allocated |-> TRUE, keys |-> CurrentKeyState]
          ELSE IF ~m_previousKeyState.allocated
               THEN [allocated |-> TRUE, keys |-> sdlKeyState]
               ELSE m_previousKeyState
    /\ inputPc' = "userUpdate"
    /\ UNCHANGED <<keyboard, sdlKeyState, frameKeys, justPressed>>

\* GameApplication::Update asks IsKeyJustPressed
InputUserUpdate ==
    /\ inputPc = "userUpdate"
    /\ justPressed' = [k \in InputKeys |-> IsKeyJustPressed(k)]
    /\ inputPc' = "events"
    /\ UNCHANGED <<keyboard, sdlKeyState, m_currentKeyState,
                   m_previousKeyState, frameKeys>>

-----------------------------------------------------------------------------
(* text::FontManager: the fonts opened with SDL_ttf, by name *)

FontNames == {"", "ui", "title"}
FontSizes == {0, 12}
FontLocations == {"assets", "system", "fallback", "generic"}
NullFont == 0
FontHandles == 1..Cardinality(FontNames)

NoFonts == [n \in {} |-> NullFont]
NoFontOp == [op |-> "none", name |-> "", ret |-> NullFont, depth |-> 0]

\* FontManager::HasFont
HasFont(fonts, name) == name \in DOMAIN fonts

\* TTF_OpenFont: a handle that no open font has
OpenFont(fonts) ==
    LET free == { h \in FontHandles : \A n \in DOMAIN fonts : fonts[n].font # h }
    IN  CHOOSE h \in free : \A other \in free : h <= other

\* FontManager::SetDefaultFont on the state st = [fonts, default]
SetDefaultFontIn(st, fontName) ==
    IF HasFont(st.fonts, fontName) THEN [st EXCEPT !.default = fontName]
    ELSE st

\* an unload that forgets the font and keeps the default name
UnloadFontKeepingDefault(st, name) ==
    IF name \in DOMAIN st.fonts
    THEN [st EXCEPT !.fonts = [n \in DOMAIN st.fonts \ {name} |-> st.fonts[n]]]
    ELSE st

\* FontManager::UnloadFont
UnloadFontIn(st, name) ==
    IF name \in DOMAIN st.fonts
    THEN [fonts |-> [n \in DOMAIN st.fonts \ {name} |-> st.fonts[n]],
          default |-> IF st.default = name THEN "" ELSE st.default]
    ELSE st

\* FontManager::GetFont: the handle returned and the number of calls GetFont
\* made to itself on the way
RECURSIVE GetFont(_, _, _)
GetFont(fonts, default, name) ==
    IF name \in DOMAIN fonts THEN [font |-> fonts[name].font, depth |-> 0]
    ELSE IF default # "" /\ name # default
    THEN LET inner == GetFont(fonts, default, default)
         IN  [font |-> inner.font, depth |-> inner.depth + 1]
    ELSE [font |-> NullFont, depth |-> 0]

FmState == [fonts |-> m_fonts, default |-> m_defaultFont]

FmInstall(st) ==
    /\ m_fonts' = st.fonts
    /\ m_defaultFont' = st.default

FontInit ==
    /\ fm_initialized = FALSE
    /\ m_fonts = NoFonts
    /\ m_defaultFont = ""
    /\ fmLastOp = NoFontOp

\* FontManager::Initialize; ttf: TTF_Init succeeded
FMInitialize ==
    \E ttf \in BOOLEAN :
        /\ fm_initialized' = (fm_initialized \/ ttf)
        /\ fmLastOp' = [NoFontOp EXCEPT !.op = "Initialize"]
        /\ UNCHANGED <<m_fonts, m_defaultFont>>

\* FontManager::UnloadAll
UnloadAll ==
    /\ FmInstall([fonts |-> NoFonts, default |-> ""])
    /\ fmLastOp' = [NoFontOp EXCEPT !.op = "UnloadAll"]
    /\ UNCHANGED fm_initialized

\* FontManager::Shutdown
FMShutdown ==
    /\ IF fm_initialized
       THEN /\ FmInstall([fonts |-> NoFonts, default |-> ""])
            /\ fm_initialized' = FALSE
       ELSE UNCHANGED <<fm_initialized, m_fonts, m_defaultFont>>
    /\ fmLastOp' = [NoFontOp EXCEPT !.op = "Shutdown"]

\* FontManager::LoadFont; found: one of the locations it tries has a file that
\* TTF_OpenFont opens, and that location is where
LoadFont ==
    \E name \in FontNames, size \in FontSizes, found \in BOOLEAN,
       where \in FontLocations :
        LET op == [NoFontOp EXCEPT !.op = "LoadFont", !.name = name]
            stored == [FmState EXCEPT
                          !.fonts = [n \in DOMAIN m_fonts \cup {name} |->
                                       IF n = name
                                       THEN [font |-> OpenFont(m_fonts),
                                             filepath |-> where,
                                             size |-> size]
                                       ELSE m_fonts[n]]]
        IN  /\ IF ~fm_initialized THEN UNCHANGED <<m_fonts, m_defaultFont>>
               ELSE IF HasFont(m_fonts, name)
               THEN UNCHANGED <<m_fonts, m_defaultFont>>
               ELSE IF size <= 0 \/ ~found
               THEN UNCHANGED <<m_fonts, m_defaultFont>>
               ELSE IF m_defaultFont = ""
               THEN FmInstall(SetDefaultFontIn(stored, name))
               ELSE FmInstall(stored)
            /\ fmLastOp' = op
            /\ UNCHANGED fm_initialized

\* FontManager::UnloadFont
UnloadFont ==
    \E name \in FontNames :
        /\ FmInstall(UnloadFontIn(FmState, name))
        /\ fmLastOp' = [NoFontOp EXCEPT !.op = "UnloadFont", !.name = name]
        /\ UNCHANGED fm_initialized

\* FontManager::SetDefaultFont
SetDefaultFont ==
    \E fontName \in FontNames :
        /\ FmInstall(SetDefaultFontIn(FmState, fontName))
        /\ fmLastOp' = [NoFontOp EXCEPT !.op = "SetDefaultFont",
                                        !.name = fontName]
        /\ UNCHANGED fm_initialized

\* a caller of FontManager::GetFont
FmGetFont ==
    \E name \in FontNames :
        LET got == GetFont(m_fonts, m_defaultFont, name)
        IN  /\ fmLastOp' = [op |-> "GetFont", name |-> name,
                            ret |-> got.font, depth |-> got.depth]
            /\ UNCHANGED <<fm_initialized, m_fonts, m_defaultFont>>

-----------------------------------------------------------------------------
(* TextRenderer::GenerateTextHash as the key of RenderCached: two texts drawn
   one after the other through an empty cache *)

KeyContents == {<<"a">>, <<"a", "|">>, <<"a", "|", "b">>}
KeyFonts == {<<"c">>, <<"|", "c">>, <<"b", "|", "c">>}

\* the Text objects drawn: content and font vary (Text::SetContent,
\* Text::SetFont take any string), the other properties keep their defaults
KeyTexts == [content : KeyContents, font : KeyFonts, alignment : {0},
             mode : {"Cached"}]

NoTexture == [content |-> <<>>, font |-> <<>>]

\* RenderToTexture(text): the texture shows the text's content in its font
RenderToTexture(text) == [content |-> text.content, font |-> text.font]

HashInit ==
    /\ keyTexts \in [1..2 -> KeyTexts]
    /\ keyDrawn = 0
    /\ keyCache = EmptyCache
    /\ keyShown = NoTexture

\* RenderCached(text) for the next of the two texts: find the key in the
\* cache and draw the texture found, or render the text, cache it and draw it
KeyRenderCached ==
    /\ keyDrawn < 2
    /\ LET text == keyTexts[keyDrawn + 1]
           cacheKey == GenerateTextHash(text)
       IN  IF cacheKey \in DOMAIN keyCache
           THEN /\ keyShown' = keyCache[cacheKey]
                /\ UNCHANGED keyCache
           ELSE /\ keyCache' = [k \in DOMAIN keyCache \cup {cacheKey} |->
                                  IF k = cacheKey THEN RenderToTexture(text)
                                  ELSE keyCache[k]]
                /\ keyShown' = RenderToTexture(text)
    /\ keyDrawn' = keyDrawn + 1
    /\ UNCHANGED keyTexts

-----------------------------------------------------------------------------
(* Specifications: one per component, the other components at rest *)

Init == EngineInit /\ CacheInit /\ ConfigInit /\ SaveInit /\ AudioInit /\ InputInit /\ FontInit /\ HashInit

InitEngine ==
    EngineInit
        /\ CacheInit
        /\ ConfigInit /\ cfgFile = FileMissing
        /\ SaveInit
        /\ AudioInit
        /\ InputInit
        /\ FontInit
        /\ HashInit /\ keyTexts = [i \in 1..2 |-> CHOOSE t \in KeyTexts : TRUE]
NextEngine ==
    \/ EngineInitialize /\ UNCHANGED <<cacheVars, configVars, saveVars, audioVars, inputVars, fontVars, keyVars>>
    \/ RunStart /\ UNCHANGED <<cacheVars, configVars, saveVars, audioVars, inputVars, fontVars, keyVars>>
    \/ FrameBegin /\ UNCHANGED <<cacheVars, configVars, saveVars, audioVars, inputVars, fontVars, keyVars>>
    \/ RunEnd /\ UNCHANGED <<cacheVars, configVars, saveVars, audioVars, inputVars, fontVars, keyVars>>
    \/ HandleEvents /\ UNCHANGED <<cacheVars, configVars, saveVars, audioVars, inputVars, fontVars, keyVars>>
    \/ EngineUpdate /\ UNCHANGED <<cacheVars, configVars, saveVars, audioVars, inputVars, fontVars, keyVars>>
    \/ EngineRender /\ UNCHANGED <<cacheVars, configVars, saveVars, audioVars, inputVars, fontVars, keyVars>>
    \/ GameUpdate /\ UNCHANGED <<cacheVars, configVars, saveVars, audioVars, inputVars, fontVars, keyVars>>
SpecEngine == InitEngine /\ [][NextEngine]_vars

InitCache ==
    CacheInit
        /\ EngineInit /\ loopOwner = "Engine"
        /\ ConfigInit /\ cfgFile = FileMissing
        /\ SaveInit
        /\ AudioInit
        /\ InputInit
        /\ FontInit
        /\ HashInit /\ keyTexts = [i \in 1..2 |-> CHOOSE t \in KeyTexts : TRUE]
NextCache ==
    \/ TRInitialize /\ UNCHANGED <<engineVars, configVars, saveVars, audioVars, inputVars, fontVars, keyVars>>
    \/ TRShutdown /\ UNCHANGED <<engineVars, configVars, saveVars, audioVars, inputVars, fontVars, keyVars>>
    \/ TRUpdate /\ UNCHANGED <<engineVars, configVars, saveVars, audioVars, inputVars, fontVars, keyVars>>
    \/ DrawText /\ UNCHANGED <<engineVars, configVars, saveVars, audioVars, inputVars, fontVars, keyVars>>
    \/ MakeRoomEvict /\ UNCHANGED <<engineVars, configVars, saveVars, audioVars, inputVars, fontVars, keyVars>>
    \/ MakeRoomDone /\ UNCHANGED <<engineVars, configVars, saveVars, audioVars, inputVars, fontVars, keyVars>>
    \/ ClearCache /\ UNCHANGED <<engineVars, configVars, saveVars, audioVars, inputVars, fontVars, keyVars>>
    \/ ClearCacheForFont /\ UNCHANGED <<engineVars, configVars, saveVars, audioVars, inputVars, fontVars, keyVars>>
    \/ SetMaxCacheSize /\ UNCHANGED <<engineVars, configVars, saveVars, audioVars, inputVars, fontVars, keyVars>>
SpecCache == InitCache /\ [][NextCache]_vars

\* RenderCached keeps running once it is in its loop: an iteration that can be
\* taken is taken, and so is the exit
SpecCacheFair ==
    SpecCache
        /\ WF_vars(MakeRoomEvict /\ UNCHANGED <<engineVars, configVars, saveVars, audioVars, inputVars, fontVars, keyVars>>)
        /\ WF_vars(MakeRoomDone /\ UNCHANGED <<engineVars, configVars, saveVars, audioVars, inputVars, fontVars, keyVars>>)

InitConfig ==
    ConfigInit
        /\ EngineInit /\ loopOwner = "Engine"
        /\ CacheInit
        /\ SaveInit
        /\ AudioInit
        /\ InputInit
        /\ FontInit
        /\ HashInit /\ keyTexts = [i \in 1..2 |-> CHOOSE t \in KeyTexts : TRUE]
NextConfig ==
    \/ CfgLoad /\ UNCHANGED <<engineVars, cacheVars, saveVars, audioVars, inputVars, fontVars, keyVars>>
    \/ CfgGet /\ UNCHANGED <<engineVars, cacheVars, saveVars, audioVars, inputVars, fontVars, keyVars>>
    \/ CfgSet /\ UNCHANGED <<engineVars, cacheVars, saveVars, audioVars, inputVars, fontVars, keyVars>>
    \/ CfgReset /\ UNCHANGED <<engineVars, cacheVars, saveVars, audioVars, inputVars, fontVars, keyVars>>
SpecConfig == InitConfig /\ [][NextConfig]_vars

\* named saves in slots
InitSave ==
    SaveInit
        /\ EngineInit /\ loopOwner = "Engine"
        /\ CacheInit
        /\ ConfigInit /\ cfgFile = FileMissing
        /\ AudioInit
        /\ InputInit
        /\ FontInit
        /\ HashInit /\ keyTexts = [i \in 1..2 |-> CHOOSE t \in KeyTexts : TRUE]
NextSave ==
    \/ SMInitialize /\ UNCHANGED <<engineVars, cacheVars, configVars, audioVars, inputVars, fontVars, keyVars>>
    \/ SMShutdown /\ UNCHANGED <<engineVars, cacheVars, configVars, audioVars, inputVars, fontVars, keyVars>>
    \/ Tick /\ UNCHANGED <<engineVars, cacheVars, configVars, audioVars, inputVars, fontVars, keyVars>>
    \/ Save /\ UNCHANGED <<engineVars, cacheVars, configVars, audioVars, inputVars, fontVars, keyVars>>
    \/ Load /\ UNCHANGED <<engineVars, cacheVars, configVars, audioVars, inputVars, fontVars, keyVars>>
SpecSave == InitSave /\ [][NextSave]_vars

\* quicksaves
InitQuick ==
    SaveInit
        /\ EngineInit /\ loopOwner = "Engine"
        /\ CacheInit
        /\ ConfigInit /\ cfgFile = FileMissing
        /\ AudioInit
        /\ InputInit
        /\ FontInit
        /\ HashInit /\ keyTexts = [i \in 1..2 |-> CHOOSE t \in KeyTexts : TRUE]
NextQuick ==
    \/ SMInitialize /\ UNCHANGED <<engineVars, cacheVars, configVars, audioVars, inputVars, fontVars, keyVars>>
    \/ Tick /\ UNCHANGED <<engineVars, cacheVars, configVars, audioVars, inputVars, fontVars, keyVars>>
    \/ Quicksave /\ UNCHANGED <<engineVars, cacheVars, configVars, audioVars, inputVars, fontVars, keyVars>>
    \/ DeleteQuicksave /\ UNCHANGED <<engineVars, cacheVars, configVars, audioVars, inputVars, fontVars, keyVars>>
    \/ LoadQuicksave /\ UNCHANGED <<engineVars, cacheVars, configVars, audioVars, inputVars, fontVars, keyVars>>
SpecQuick == InitQuick /\ [][NextQuick]_vars

\* loads of files of any origin
InitLoad ==
    SaveInit
        /\ EngineInit /\ loopOwner = "Engine"
        /\ CacheInit
        /\ ConfigInit /\ cfgFile = FileMissing
        /\ AudioInit
        /\ InputInit
        /\ FontInit
        /\ HashInit /\ keyTexts = [i \in 1..2 |-> CHOOSE t \in KeyTexts : TRUE]
NextLoad ==
    \/ SMInitialize /\ UNCHANGED <<engineVars, cacheVars, configVars, audioVars, inputVars, fontVars, keyVars>>
    \/ ForeignWrite /\ UNCHANGED <<engineVars, cacheVars, configVars, audioVars, inputVars, fontVars, keyVars>>
    \/ Load /\ UNCHANGED <<engineVars, cacheVars, configVars, audioVars, inputVars, fontVars, keyVars>>
    \/ LoadQuicksave /\ UNCHANGED <<engineVars, cacheVars, configVars, audioVars, inputVars, fontVars, keyVars>>
SpecLoad == InitLoad /\ [][NextLoad]_vars

InitAudio ==
    AudioInit
        /\ EngineInit /\ loopOwner = "Engine"
        /\ CacheInit
        /\ ConfigInit /\ cfgFile = FileMissing
        /\ SaveInit
        /\ InputInit
        /\ FontInit
        /\ HashInit /\ keyTexts = [i \in 1..2 |-> CHOOSE t \in KeyTexts : TRUE]
NextAudio ==
    \/ AuInitialize /\ UNCHANGED <<engineVars, cacheVars, configVars, saveVars, inputVars, fontVars, keyVars>>
    \/ AuShutdown /\ UNCHANGED <<engineVars, cacheVars, configVars, saveVars, inputVars, fontVars, keyVars>>
    \/ AuUpdate /\ UNCHANGED <<engineVars, cacheVars, configVars, saveVars, inputVars, fontVars, keyVars>>
    \/ LoadSound /\ UNCHANGED <<engineVars, cacheVars, configVars, saveVars, inputVars, fontVars, keyVars>>
    \/ LoadStream /\ UNCHANGED <<engineVars, cacheVars, configVars, saveVars, inputVars, fontVars, keyVars>>
    \/ UnloadSound /\ UNCHANGED <<engineVars, cacheVars, configVars, saveVars, inputVars, fontVars, keyVars>>
    \/ UnloadStream /\ UNCHANGED <<engineVars, cacheVars, configVars, saveVars, inputVars, fontVars, keyVars>>
    \/ PlaySound /\ UNCHANGED <<engineVars, cacheVars, configVars, saveVars, inputVars, fontVars, keyVars>>
    \/ PlayStream /\ UNCHANGED <<engineVars, cacheVars, configVars, saveVars, inputVars, fontVars, keyVars>>
    \/ StopAudio /\ UNCHANGED <<engineVars, cacheVars, configVars, saveVars, inputVars, fontVars, keyVars>>
    \/ StopAll /\ UNCHANGED <<engineVars, cacheVars, configVars, saveVars, inputVars, fontVars, keyVars>>
    \/ MusicFinished /\ UNCHANGED <<engineVars, cacheVars, configVars, saveVars, inputVars, fontVars, keyVars>>
    \/ ChannelFinished /\ UNCHANGED <<engineVars, cacheVars, configVars, saveVars, inputVars, fontVars, keyVars>>
SpecAudio == InitAudio /\ [][NextAudio]_vars

InitInput ==
    InputInit
        /\ EngineInit /\ loopOwner = "Engine"
        /\ CacheInit
        /\ ConfigInit /\ cfgFile = FileMissing
        /\ SaveInit
        /\ AudioInit
        /\ FontInit
        /\ HashInit /\ keyTexts = [i \in 1..2 |-> CHOOSE t \in KeyTexts : TRUE]
NextInput ==
    \/ KeyChange /\ UNCHANGED <<engineVars, cacheVars, configVars, saveVars, audioVars, fontVars, keyVars>>
    \/ InputHandleEvents /\ UNCHANGED <<engineVars, cacheVars, configVars, saveVars, audioVars, fontVars, keyVars>>
    \/ InputUpdate /\ UNCHANGED <<engineVars, cacheVars, configVars, saveVars, audioVars, fontVars, keyVars>>
    \/ InputUserUpdate /\ UNCHANGED <<engineVars, cacheVars, configVars, saveVars, audioVars, fontVars, keyVars>>
SpecInput == InitInput /\ [][NextInput]_vars

InitFont ==
    FontInit
        /\ EngineInit /\ loopOwner = "Engine"
        /\ CacheInit
        /\ ConfigInit /\ cfgFile = FileMissing
        /\ SaveInit
        /\ AudioInit
        /\ InputInit
        /\ HashInit /\ keyTexts = [i \in 1..2 |-> CHOOSE t \in KeyTexts : TRUE]
NextFont ==
    \/ FMInitialize /\ UNCHANGED <<engineVars, cacheVars, configVars, saveVars, audioVars, inputVars, keyVars>>
    \/ FMShutdown /\ UNCHANGED <<engineVars, cacheVars, configVars, saveVars, audioVars, inputVars, keyVars>>
    \/ LoadFont /\ UNCHANGED <<engineVars, cacheVars, configVars, saveVars, audioVars, inputVars, keyVars>>
    \/ UnloadFont /\ UNCHANGED <<engineVars, cacheVars, configVars, saveVars, audioVars, inputVars, keyVars>>
    \/ UnloadAll /\ UNCHANGED <<engineVars, cacheVars, configVars, saveVars, audioVars, inputVars, keyVars>>
    \/ SetDefaultFont /\ UNCHANGED <<engineVars, cacheVars, configVars, saveVars, audioVars, inputVars, keyVars>>
    \/ FmGetFont /\ UNCHANGED <<engineVars, cacheVars, configVars, saveVars, audioVars, inputVars, keyVars>>
SpecFont == InitFont /\ [][NextFont]_vars

InitKey ==
    HashInit
        /\ EngineInit /\ loopOwner = "Engine"
        /\ CacheInit
        /\ ConfigInit /\ cfgFile = FileMissing
        /\ SaveInit
        /\ AudioInit
        /\ InputInit
        /\ FontInit
NextKey ==
    \/ KeyRenderCached /\ UNCHANGED <<engineVars, cacheVars, configVars, saveVars, audioVars, inputVars, fontVars>>
SpecKey == InitKey /\ [][NextKey]_vars

-----------------------------------------------------------------------------
(* Properties of the fixed-timestep loop *)

PhysicsCalls(calls) == {i \in 1..Len(calls) : calls[i].fn = "Physics.FixedUpdate"}
AppUpdateCalls(calls) == {i \in 1..Len(calls) : calls[i].fn = "App.Update"}

FrameShape(calls, ts, dt) ==
    \E k \in 0..Len(calls) :
        /\ Len(calls) = 2 * k + 1
        /\ \A i \in 1..k :
              /\ calls[2 * i - 1] = Call("Physics.FixedUpdate", ts)
              /\ calls[2 * i] = Call("App.FixedUpdate", ts)
        /\ calls[2 * k + 1] = Call("App.Update", dt)
        /\ AppUpdateCalls(calls) = {2 * k + 1}

\* C2: within one Update call every fixed-step iteration calls the physics
\* fixed update and then the user's FixedUpdate, both with the fixed timestep,
\* and after the last iteration the user's Update is called exactly once with
\* the frame's unmodified deltaTime, also when zero fixed steps ran.
C2_FrameCallOrder ==
    /\ enginePc = "render" => FrameShape(frameCalls, m_fixedTimestep, deltaTime)
    /\ g_frameCalls # <<>> =>
          FrameShape(g_frameCalls, GAME_FIXED_TIMESTEP, g_deltaTime)

\* A frame with at least two fixed steps whose deltaTime differs from both the
\* fixed timestep and the remaining accumulator
C2_Witness ==
    /\ enginePc = "render"
    /\ fixedSteps >= 2
    /\ deltaTime # m_fixedTimestep
    /\ deltaTime # m_physicsAccumulator

\* A frame in which no fixed step ran and the variable update still did
C2_WitnessNoFixedStep ==
    /\ enginePc = "render"
    /\ fixedSteps = 0
    /\ deltaTime > 0
    /\ frameCalls = <<Call("App.Update", deltaTime)>>


-----------------------------------------------------------------------------
(* Properties of the text cache *)

Frame(cache, k) == cache[k].lastUsedFrame

\* C3: EvictOldCacheEntries removes cache entries one at a time, each time an
\* entry whose lastUsedFrame is minimal among the entries present, only while
\* the cached byte count exceeds the budget, and stops as soon as the count is
\* no more than the budget or the cache is empty; an entry is never evicted
\* while an entry with a strictly older last-used frame remains.
C3_EvictsOldestFirst ==
    LET n == Len(evictCall.steps)
        After(i) == IF i < n THEN evictCall.steps[i + 1].before
                    ELSE evictCall.cacheAfter
        SizeAfter(i) == IF i < n THEN evictCall.steps[i + 1].sizeBefore
                        ELSE evictCall.sizeAfter
    IN  /\ \A i \in 1..n :
            LET s == evictCall.steps[i]
            IN  /\ s.victim \in DOMAIN s.before
                /\ \A j \in DOMAIN s.before :
                      Frame(s.before, s.victim) <= Frame(s.before, j)
                /\ s.sizeBefore > evictCall.budget
                /\ DOMAIN After(i) = (DOMAIN s.before) \ {s.victim}
                /\ \A j \in DOMAIN After(i) : After(i)[j] = s.before[j]
                /\ SizeAfter(i) = s.sizeBefore - s.before[s.victim].memorySize
        /\ evictCall.sizeAfter <= evictCall.budget
              \/ DOMAIN evictCall.cacheAfter = {}
        /\ evictCall # NoEvictCall =>
              /\ m_textCache = evictCall.cacheAfter
              /\ m_currentCacheSize = evictCall.sizeAfter

\* An eviction that had a choice between an older and a newer entry and
\* stopped with entries left in the cache
C3_Witness ==
    /\ Len(evictCall.steps) >= 1
    /\ DOMAIN evictCall.cacheAfter # {}
    /\ \E j \in DOMAIN evictCall.steps[1].before :
          Frame(evictCall.steps[1].before, j)
              > Frame(evictCall.steps[1].before, evictCall.steps[1].victim)

\* C4: drawing a Cached-mode Text whose key is already in the cache creates no
\* entry and renders no texture: the set of cache keys and the cached byte
\* count are unchanged and only that entry's lastUsedFrame is set to the
\* current frame counter.
C4_CacheHitOnlyTouchesEntry ==
    [][ (trPc = "idle" /\ trLastOp'.op = "DrawText.hit") =>
           LET key == trLastOp'.key
           IN  /\ key \in DOMAIN m_textCache
               /\ DOMAIN m_textCache' = DOMAIN m_textCache
               /\ m_currentCacheSize' = m_currentCacheSize
               /\ \A k \in (DOMAIN m_textCache) \ {key} :
                     m_textCache'[k] = m_textCache[k]
               /\ m_textCache'[key].memorySize = m_textCache[key].memorySize
               /\ m_textCache'[key].lastUsedFrame = m_currentFrame
               /\ ~trLastOp'.rendered
               /\ trPc' = "idle" /\ trPending' = trPending
               /\ m_currentFrame' = m_currentFrame
               /\ m_maxCacheSize' = m_maxCacheSize ]_vars

\* A hit on an entry cached in an earlier frame, beside an entry left alone
C4_Witness ==
    /\ trLastOp.op = "DrawText.hit"
    /\ trLastOp.key \in DOMAIN m_textCache
    /\ Frame(m_textCache, trLastOp.key) = m_currentFrame
    /\ \E k \in DOMAIN m_textCache : Frame(m_textCache, k) < m_currentFrame

-----------------------------------------------------------------------------
(* Config *)

\* every value of a document with the keys that lead to it
RECURSIVE Bindings(_)
Bindings(j) ==
    {<<<<>>, j>>} \cup
        IF j.t = "object"
        THEN UNION { { <<<<k>> \o b[1], b[2]>> : b \in Bindings(j.fields[k]) } :
                     k \in DOMAIN j.fields }
        ELSE {}

\* the non-empty segments of a dot-path, read off the characters
Segments(path) ==
    LET dots == {0, Len(path) + 1} \cup {i \in 1..Len(path) : path[i] = "."}
        runs == { <<a, b>> \in dots \X dots :
                     /\ a + 1 < b
                     /\ \A i \in (a + 1)..(b - 1) : path[i] # "." }
        Count(a) == Cardinality({r \in runs : r[1] < a})
    IN  [n \in 1..Cardinality(runs) |->
            LET r == CHOOSE x \in runs : Count(x[1]) = n - 1
            IN  [i \in 1..(r[2] - r[1] - 1) |-> path[r[1] + i]]]

\* the values a dot-path resolves to in a document (none or one)
Resolved(doc, path) == { b[2] : b \in {x \in Bindings(doc) : x[1] = Segments(path)} }

\* the JSON type a getter asks for
RightType(kind, value) ==
    CASE kind = "Int" -> value.t = "int"
      [] kind = "Float" -> value.t \in {"int", "float"}
      [] kind = "Bool" -> value.t = "bool"
      [] kind = "String" -> value.t = "string"

\* C5: a getter leaves the document as it was, and returns the caller's
\* default whenever the dot-path resolves to no value or to a value of a JSON
\* type other than the one asked for.
C5_GettersDefaultAndReadOnly ==
    [][ cfgLastOp'.op = "Get" =>
          /\ m_config' = m_config
          /\ (\A v \in Resolved(m_config, cfgLastOp'.path) :
                  ~RightType(cfgLastOp'.kind, v))
                => cfgLastOp'.ret = cfgLastOp'.arg ]_vars

\* a getter has returned its default for a path that leads to a value of
\* another type, the default differing from what the path holds
C5_Witness ==
    /\ cfgLastOp.op = "Get"
    /\ cfgLastOp.kind = "Int"
    /\ Segments(cfgLastOp.path) # <<>>
    /\ Resolved(m_config, cfgLastOp.path) = {JStr(<<"x">>)}
    /\ cfgLastOp.ret = JInt(0)

\* C6: after a setter on a dot-path with a non-empty segment, the getter of
\* the same type on the same path returns the value set, whatever the default.
C6_SetThenGet ==
    (cfgLastOp.op = "Set" /\ Segments(cfgLastOp.path) # <<>>) =>
        \A d \in ValuesOf(cfgLastOp.kind) :
            Getter(cfgLastOp.kind, m_config, cfgLastOp.path, d).ret = cfgLastOp.arg

WindowWidth == <<"window", ".", "width">>
WindowTitle == <<"window", ".", "title">>
WindowVsync == <<"window", ".", "vsync">>
MusicVolume == <<"audio", ".", "music_volume">>

\* C10: Load of a missing file installs the defaults, writes them to the file
\* and returns whether that write happened; Load of an unparseable file
\* installs the defaults and returns false; the getters then give the built-in
\* values.
C10_LoadFallsBackToDefaults ==
    (cfgLastOp.op = "Load" /\ cfgLastOp.found \in {"missing", "unparseable"}) =>
        /\ cfgLastOp.found = "unparseable" =>
              cfgLastOp.ret = JBool(FALSE) /\ cfgFile = FileGarbage
        /\ cfgLastOp.found = "missing" =>
              /\ cfgLastOp.ret = JBool(TRUE) =>
                    /\ cfgLastOp.path = SettingsFile
                    /\ cfgFile.kind = "json"
                    /\ Resolved(cfgFile.doc, WindowWidth) = {JInt(1280)}
                    /\ cfgFile.doc = m_config
              /\ (cfgLastOp.ret = JBool(FALSE) /\ cfgLastOp.path = SettingsFile)
                    => cfgFile = FileMissing
        /\ Resolved(m_config, WindowWidth) = {JInt(1280)}
        /\ \A d \in ValuesOf("Int") : GetInt(m_config, WindowWidth, d).ret = JInt(1280)
        /\ \A d \in ValuesOf("String") :
              GetString(m_config, WindowTitle, d).ret = JStr(<<"SDL2 Game">>)
        /\ \A d \in ValuesOf("Bool") : GetBool(m_config, WindowVsync, d).ret = JBool(TRUE)
        /\ \A d \in ValuesOf("Float") : GetFloat(m_config, MusicVolume, d).ret = JFloat(800)

\* a missing settings file has been replaced by the written defaults
C10_Witness ==
    /\ cfgLastOp.op = "Load"
    /\ cfgLastOp.found = "missing"
    /\ cfgLastOp.ret = JBool(TRUE)
    /\ cfgFile = FileJson(CreateDefaultConfig)

-----------------------------------------------------------------------------
(* SaveManager *)

\* a JSON file whose envelope has no version, no data, or a version that is
\* not "1.0.0"
BadEnvelope(content) ==
    /\ content.kind = "json"
    /\ \/ content.doc.t # "object"
       \/ Key("version") \notin DOMAIN content.doc.fields
       \/ Key("data") \notin DOMAIN content.doc.fields
       \/ content.doc.fields[Key("version")] # JStr(SaveVersion)

\* C7: Load<T> and LoadQuicksave<T> change no file, and return no value when
\* the file they read has an envelope without version, without data, or with
\* a version other than "1.0.0".
C7_BadEnvelopeLoadsNothing ==
    [][ smLastOp'.op \in {"Load", "LoadQuicksave"} =>
          /\ files' = files
          /\ (/\ smLastOp'.file \in DOMAIN files
              /\ BadEnvelope(files[smLastOp'.file]))
                => smLastOp'.ret = None ]_vars

\* Load has been called on a file of a slot whose envelope carries another
\* version
C7_Witness ==
    /\ sm_initialized
    /\ smLastOp.op = "Load"
    /\ smLastOp.file \in DOMAIN files
    /\ files[smLastOp.file].kind = "json"
    /\ Contains(files[smLastOp.file].doc, Key("version"))
    /\ Contains(files[smLastOp.file].doc, Key("data"))
    /\ files[smLastOp.file].doc.fields[Key("version")] = JStr(<<"2.0.0">>)
    /\ smLastOp.ret = None

\* C8: after a Save<T>(slot, d) that returned true, the slot's directory holds
\* the file, its envelope has exactly the fields version, timestamp, type and
\* data, and Load<T>(slot, thatFile) returns d.
C8_SaveLoadRoundTrip ==
    (smLastOp.op = "Save" /\ smLastOp.ret.some) =>
        /\ smLastOp.file \in FilesIn(files, GetSlotPath(smLastOp.slot))
        /\ files[smLastOp.file].kind = "json"
        /\ files[smLastOp.file].doc.t = "object"
        /\ DOMAIN files[smLastOp.file].doc.fields =
              {Key("version"), Key("timestamp"), Key("type"), Key("data")}
        /\ LoadEnvelope(smLastOp.T, files, smLastOp.file) = Some(smLastOp.data)

\* C9: the quicksave directory of a type holds at most one file; a file it
\* holds is the one the most recent Quicksave<T> that returned true wrote, and
\* LoadQuicksave<T> returns the data of that call.
C9_SingleQuicksave ==
    \A T \in Types :
        LET held == FilesIn(files, GetQuicksaveTypePath(T))
        IN  /\ Cardinality(held) <= 1
            /\ \A p \in held :
                  /\ qsLast[T].op = "Quicksave"
                  /\ p = qsLast[T].file
                  /\ LoadEnvelope(T, files, p) = Some(qsLast[T].data)

\* C11: a Save<T>(slot, d) that returned true adds one file to the slot and
\* keeps every earlier save of the slot as it was, so that GetSlotSaveCount
\* grows by exactly one, also when the previous save was in the same second.
C11_SaveAddsOneFile ==
    [][ (smLastOp'.op = "Save" /\ smLastOp'.ret.some) =>
          /\ GetSlotSaveCount(files', smLastOp'.slot, sm_initialized') =
                GetSlotSaveCount(files, smLastOp'.slot, sm_initialized) + 1
          /\ \A p \in GetSavesInSlot(files, smLastOp'.slot, sm_initialized) :
                p \in DOMAIN files' /\ files'[p] = files[p] ]_vars

\* C12: Load<T> returns a value only from a file whose envelope names T in
\* its type field.
C12_LoadTypeSafe ==
    (smLastOp.op = "Load" /\ smLastOp.ret.some) =>
        /\ Contains(files[smLastOp.file].doc, Key("type"))
        /\ files[smLastOp.file].doc.fields[Key("type")] =
              JStr(GetTypeName(smLastOp.T))

-----------------------------------------------------------------------------
(* AudioManager *)

\* C13: at most one tracked playing audio is a stream, and
\* m_currentMusicHandle is INVALID_AUDIO_HANDLE or the handle of that entry.
C13_OneTrackedStream ==
    /\ Cardinality(TrackedStreams(m_playingAudio)) <= 1
    /\ \/ m_currentMusicHandle = INVALID_AUDIO_HANDLE
       \/ m_currentMusicHandle \in TrackedStreams(m_playingAudio)

\* a stream has been started after earlier audio and while a sound is
\* tracked: the one stream tracked is the one PlayStream just returned
C13_Witness ==
    /\ auLastOp.op = "PlayStream"
    /\ auLastOp.ret > 1
    /\ m_currentMusicHandle = auLastOp.ret
    /\ TrackedStreams(m_playingAudio) = {auLastOp.ret}
    /\ \E h \in DOMAIN m_playingAudio :
          ~m_playingAudio[h].isStream /\ h > 1

-----------------------------------------------------------------------------
(* Input *)

\* C14: in every frame after the first, IsKeyJustPressed(key) is true exactly
\* when the key is down in that frame and was up in the frame before.
C14_JustPressedOnEdge ==
    (inputPc = "events" /\ frameKeys.frames = "later") =>
        \A k \in InputKeys :
            justPressed[k] = (frameKeys.now[k] /\ ~frameKeys.before[k])

-----------------------------------------------------------------------------
(* FontManager *)

\* C15: the default font name is empty or the name of a loaded font; hence
\* GetFont of a name that is not loaded returns the default font's handle when
\* there is a default and null otherwise, and calls itself at most once.
C15_DefaultFontIsLoaded ==
    /\ m_defaultFont = "" \/ m_defaultFont \in DOMAIN m_fonts
    /\ (fmLastOp.op = "GetFont" /\ fmLastOp.name \notin DOMAIN m_fonts) =>
          /\ fmLastOp.ret = IF m_defaultFont # ""
                            THEN m_fonts[m_defaultFont].font ELSE NullFont
          /\ (m_defaultFont # "") = (fmLastOp.ret # NullFont)
          /\ fmLastOp.depth <= 1

\* GetFont of a name that is not loaded fell back to the default, with two
\* fonts loaded
C15_Witness ==
    /\ fmLastOp.op = "GetFont"
    /\ fmLastOp.name \notin DOMAIN m_fonts
    /\ fmLastOp.name # ""
    /\ m_defaultFont # ""
    /\ fmLastOp.depth = 1
    /\ fmLastOp.ret = m_fonts[m_defaultFont].font
    /\ Cardinality(DOMAIN m_fonts) = 2

-----------------------------------------------------------------------------
(* TextRenderer: the make-room loop and the byte count *)

\* C16: RenderCached on a cache miss always terminates: once the make-room
\* loop is entered it is left after finitely many evictions, whatever the
\* cache holds, the budget is and the new entry's size is.
C16_MakeRoomTerminates == (trPc = "makeRoom") ~> (trPc = "idle")

\* the cache the loop cannot leave: not empty, within budget, and too full for
\* the new entry
C16_Stuck ==
    /\ trPc = "makeRoom"
    /\ MakeRoomTest
    /\ m_currentCacheSize <= m_maxCacheSize

\* C17: when RenderCached has inserted a new entry that is itself no larger
\* than the budget, and when SetMaxCacheSize has returned, the cached byte
\* count is at most the maximum cache size.
C17_WithinBudget ==
    /\ trLastOp.op = "SetMaxCacheSize" => m_currentCacheSize <= m_maxCacheSize
    /\ (/\ trLastOp.op = "DrawText.miss"
        /\ trPc = "idle"
        /\ m_textCache[trLastOp.key].memorySize <= m_maxCacheSize)
          => m_currentCacheSize <= m_maxCacheSize

\* an entry was inserted next to another one and the two fill the budget
C17_Witness ==
    /\ trLastOp.op = "DrawText.miss"
    /\ trPc = "idle"
    /\ Cardinality(DOMAIN m_textCache) = 2
    /\ m_currentCacheSize = m_maxCacheSize

\* SetMaxCacheSize returned after evicting one of two entries
C17_WitnessSetMax ==
    /\ trLastOp.op = "SetMaxCacheSize"
    /\ Len(evictCall.steps) = 1
    /\ DOMAIN m_textCache # {}

\* C18: after any sequence of DrawText, Update, ClearCache, ClearCacheForFont,
\* SetMaxCacheSize and Shutdown calls, GetCacheMemoryUsage() is the sum of
\* memorySize over the entries in the cache, and 0 when the cache is empty.
C18_CacheSizeIsSum == m_currentCacheSize = SumMemory(m_textCache)

\* ClearCacheForFont erased one of two entries
C18_Witness ==
    /\ trLastOp.op = "ClearCacheForFont"
    /\ trLastOp.key \in Fonts
    /\ Cardinality(DOMAIN m_textCache) = 1
    /\ m_currentCacheSize > 0
    /\ m_currentCacheSize < 2 * MB

-----------------------------------------------------------------------------
(* Engine: the accumulator *)

C20_NoBacklogWithDefaults ==
    (/\ m_fixedTimestep = DefaultFixedTimestep
     /\ m_maxFixedSteps = DefaultMaxFixedSteps) =>
        /\ m_physicsAccumulator < m_fixedTimestep
        /\ fixedSteps < m_maxFixedSteps

\* the longest frame with the largest remainder before it: three fixed steps
C20_Witness ==
    /\ enginePc = "render"
    /\ m_fixedTimestep = DefaultFixedTimestep
    /\ m_maxFixedSteps = DefaultMaxFixedSteps
    /\ deltaTime = DeltaTimeCap
    /\ fixedSteps = 3
    /\ m_physicsAccumulator = 1

-----------------------------------------------------------------------------
(* Engine: leaving the loop *)

\* C21: once HandleEvents has processed an SDL_QUIT event or an Escape
\* key-down, Run still does that frame's Update and Render and then returns;
\* no further frame is started and the flag is not set again.
C21_QuitEndsAfterThisFrame ==
    [][(~m_isRunning /\ enginePc \in {"update", "render", "loopTest"}) =>
          /\ ~m_isRunning'
          /\ enginePc = "update" => enginePc' = "render"
          /\ enginePc = "render" => enginePc' = "loopTest"
          /\ enginePc = "loopTest" => enginePc' = "returned"]_vars

\* Run has returned after a frame whose Update ran
C21_Witness ==
    /\ enginePc = "returned"
    /\ ~m_isRunning
    /\ Len(frameCalls) >= 1
    /\ frameCalls[Len(frameCalls)].fn = "App.Update"

-----------------------------------------------------------------------------
(* TextRenderer: the cache key *)

\* C22: two Text objects that differ in content or in font never get the same
\* key from GenerateTextHash, so a cached draw never shows the texture
\* rendered for a different text.
C22_KeyInjective ==
    (/\ keyDrawn = 2
     /\ \/ keyTexts[1].content # keyTexts[2].content
        \/ keyTexts[1].font # keyTexts[2].font) =>
      /\ Cardinality(DOMAIN keyCache) = 2
      /\ keyShown = RenderToTexture(keyTexts[2])

\* the entries of a cache whose Text used the font fontName
EntriesOfFont(cache, fontName) ==
    { key \in DOMAIN cache :
        \E text \in TextInputs :
            GenerateTextHash(text) = key /\ text.font = fontName }

\* C23: ClearCacheForFont(fontName) removes exactly the cache entries whose
\* Text used the font fontName, subtracts their sizes from the cached byte
\* count, and leaves every entry rendered with another font in the cache.
C23_ClearsExactlyTheFont ==
    [][trLastOp'.op = "ClearCacheForFont" =>
          LET used == EntriesOfFont(m_textCache, trLastOp'.key)
          IN  /\ m_textCache' = [k \in DOMAIN m_textCache \ used |->
                                   m_textCache[k]]
              /\ m_currentCacheSize' =
                    m_currentCacheSize
                        - SumMemory([k \in used |-> m_textCache[k]])]_vars

-----------------------------------------------------------------------------
(* SaveManager: a quicksave that fails *)

\* what LoadQuicksave<T> can return with the files fs
QuickLoadResults(T, fs) ==
    LET saves == JsonFilesIn(fs, GetQuicksaveTypePath(T))
    IN  IF saves = {} THEN {None}
        ELSE { LoadEnvelope(T, fs, first) : first \in saves }

\* C24: a Quicksave<T> call that returns false leaves the previous quicksave
\* of T in place: LoadQuicksave<T> returns afterwards what it returned before.
C24_FailedQuicksaveKeepsPrevious ==
    [][(/\ smLastOp'.op = "Quicksave"
        /\ ~smLastOp'.ret.some
        /\ QuicksaveExists(smLastOp'.T, files)) =>
          QuickLoadResults(smLastOp'.T, files') =
              QuickLoadResults(smLastOp'.T, files)]_vars

-----------------------------------------------------------------------------
(* Config: what a setter leaves alone *)

\* s is the beginning of t
IsPrefix(s, t) == Len(s) <= Len(t) /\ SubSeq(t, 1, Len(s)) = s

\* what the four getters return for path q on the document cfg
ReadAt(cfg, q) ==
    [kind \in Kinds |->
        { Getter(kind, cfg, q, d).ret : d \in DefaultsOf(kind) }]

\* C25: a setter called with path p changes only the value at p: every path q
\* that is neither a prefix nor an extension of p reads the same before and
\* after the call, for every path string p, the empty one and those with
\* empty segments included.
C25_SetterFrame ==
    [][cfgLastOp'.op = "Set" =>
          \A q \in PathInputs :
              (~IsPrefix(q, cfgLastOp'.path) /\ ~IsPrefix(cfgLastOp'.path, q))
                  => ReadAt(m_config', q) = ReadAt(m_config, q)]_vars

\* the same with prefix and extension taken on the keys a path resolves to
C25_SetterFrameResolved ==
    [][cfgLastOp'.op = "Set" =>
          \A q \in PathInputs :
              (/\ ~IsPrefix(SplitPath(q), SplitPath(cfgLastOp'.path))
               /\ ~IsPrefix(SplitPath(cfgLastOp'.path), SplitPath(q)))
                  => ReadAt(m_config', q) = ReadAt(m_config, q)]_vars

-----------------------------------------------------------------------------
(* AudioManager: handles and channels *)

\* the handle PlaySound returned for the sound that plays on a channel: the
\* newest tracked sound of that channel
StartedBy(playing, channels, c) ==
    IF channels[c] = "none" THEN INVALID_AUDIO_HANDLE
    ELSE LET on == { h \in DOMAIN playing :
                        ~playing[h].isStream /\ playing[h].channel = c }
         IN  CHOOSE h \in on : \A other \in on : other <= h

\* C26: StopAudio(h) only ever affects the sound started by the PlaySound call
\* that returned h, also when that sound has finished by itself and the mixer
\* has given its channel to a newer sound before Update cleaned h up.
C26_HandleMeansItsOwnSound ==
    [][auLastOp'.op = "StopAudio" =>
          \A c \in Channels :
              mixChannels'[c] # mixChannels[c] =>
                  StartedBy(m_playingAudio, mixChannels, c) = auLastOp'.ret]_vars

\* C27: UnloadStream(name) stops music playback only when the stream being
\* unloaded is the one playing; unloading a loaded stream that is not playing
\* leaves the playing stream, its tracked entry and m_currentMusicHandle
\* untouched.
C27_UnloadStreamSparesOtherMusic ==
    [][(/\ auLastOp'.op = "UnloadStream"
        /\ auLastOp'.name \in m_streams
        /\ mixMusic # NoMusic
        /\ mixMusic.name # auLastOp'.name) =>
          /\ mixMusic' = mixMusic
          /\ m_playingAudio' = m_playingAudio
          /\ m_currentMusicHandle' = m_currentMusicHandle]_vars

=============================================================================
